---- MODULE Spec2Model ----
\* Store-location resolution and initialization subsystem of the trails /
\* logbooks / fieldbooks packages: the retry policy (retry.ts), the store
\* initializer and legacy migrator (db.ts), the path resolver (paths.ts) and
\* the lazily initialised handle of the MCP server.
EXTENDS Integers, Sequences, FiniteSets, TLC

VARIABLES
    r,        \* the state of one retry(fn, options) invocation (SpecRetry)
    init,     \* the state of initializeDatabase calls and the file system (SpecInit)
    mcp,      \* the MCP server: module-level db and its in-flight requests (SpecMcp)
    calc,     \* calls of calculateDelay (SpecDelay)
    api,      \* calls of addEntry / listEntries on one store handle (SpecApi)
    pth,      \* calls of the path resolvers (SpecPaths)
    fnd,      \* calls of findFieldbookDir on a directory tree (SpecFind)
    cfg,      \* calls of FieldbookConfigSchema.parse (SpecConfig)
    auth,     \* concurrent ensureAuthorExists calls on one database (SpecAuthors)
    add       \* one submission of the add command (SpecAdd)

vars == <<r, init, mcp, calc, api, pth, fnd, cfg, auth, add>>

\* ------------------------------------------------------------------ bounds
\* Largest maxAttempts value passed explicitly in the options.
MaxRetries == 3

\* Math.random() is drawn from {0/RandDen, ..., (RandDen-1)/RandDen}.
RandDen == 2

\* ------------------------------------------------------------- text values
\* Strings whose content the code inspects are sequences of characters.
Upper == <<"A","B","C","D","E","F","G","H","I","J","K","L","M",
           "N","O","P","Q","R","S","T","U","V","W","X","Y","Z">>
Lower == <<"a","b","c","d","e","f","g","h","i","j","k","l","m",
           "n","o","p","q","r","s","t","u","v","w","x","y","z">>

ToLowerChar(c) ==
    IF \E i \in 1..26 : Upper[i] = c
    THEN Lower[CHOOSE i \in 1..26 : Upper[i] = c]
    ELSE c

\* String.prototype.toLowerCase
ToLowerCase(s) == [i \in 1..Len(s) |-> ToLowerChar(s[i])]

\* String.prototype.includes
Includes(hay, pat) ==
    \E i \in 1..(Len(hay) - Len(pat) + 1) : SubSeq(hay, i, i + Len(pat) - 1) = pat

\* retry.ts RETRYABLE_DB_ERRORS
RETRYABLE_DB_ERRORS ==
    << <<"S","Q","L","I","T","E","_","B","U","S","Y">>,
       <<"S","Q","L","I","T","E","_","L","O","C","K","E","D">>,
       <<"d","a","t","a","b","a","s","e"," ","i","s"," ","l","o","c","k","e","d">>,
       <<"d","a","t","a","b","a","s","e"," ","t","a","b","l","e"," ","i","s"," ",
         "l","o","c","k","e","d">>,
       <<"c","a","n","n","o","t"," ","c","o","m","m","i","t"," ","-"," ","n","o"," ",
         "t","r","a","n","s","a","c","t","i","o","n"," ","i","s"," ","a","c","t","i","v","e">>,
       <<"E","C","O","N","N","R","E","F","U","S","E","D">>,
       <<"E","T","I","M","E","D","O","U","T">>,
       <<"E","N","O","T","F","O","U","N","D">> >>

\* ------------------------------------------------------------ error values
\* A thrown value: kind is "Error" (text = its message), "string" (text = the
\* string), "object" (a plain object with the one string property code, whose
\* value is text), "null" or "undefined"; op is the operation tag of a DbError
\* (empty for a plain Error).
Err(kind, text, op) == [kind |-> kind, text |-> text, op |-> op]

NoErr == Err("undefined", <<>>, "")

ErrBusy == Err("Error", <<"S","Q","L","I","T","E","_","B","U","S","Y">>, "")
ErrLockedMixed ==
    Err("Error", <<"D","a","t","a","b","a","s","e"," ","I","s"," ","L","o","c","k","e","d">>, "")
ErrSyntax == Err("Error", <<"s","y","n","t","a","x"," ","e","r","r","o","r">>, "")
ErrNull == Err("null", <<>>, "")
ErrCantOpen == Err("Error", <<"S","Q","L","I","T","E","_","C","A","N","T","O","P","E","N">>, "")
ErrAccess == Err("Error", <<"E","A","C","C","E","S">>, "")
ErrConfigInvalid == Err("Error", <<"C","o","n","f","i","g","u","r","a","t","i","o","n"," ","f","i","l","e"," ","v","a","l","i","d","a","t","i","o","n"," ","f","a","i","l","e","d">>, "")
ErrMigrateLegacy == Err("Error", <<"F","a","i","l","e","d"," ","t","o"," ","m","i","g","r","a","t","e"," ","l","e","g","a","c","y"," ","d","a","t","a","b","a","s","e">>, "migrateLegacyDb")
ErrTimeoutString == Err("string", <<"e","t","i","m","e","d","o","u","t">>, "")
ErrObjectBusy == Err("object", <<"S","Q","L","I","T","E","_","B","U","S","Y">>, "")

\* The values fn may reject with.
FnErrors ==
    {ErrBusy, ErrSyntax, ErrNull, NoErr, ErrLockedMixed, ErrTimeoutString,
     ErrObjectBusy}

\* JSON.stringify of the plain object { code: text }
JSONStringify(error) ==
    <<"{", "\"", "c", "o", "d", "e", "\"", ":", "\"">> \o error.text \o <<"\"", "}">>

\* The values fn may fulfil with.
FnValues == {1, 2}

\* retry.ts isRetryableDbError
\* pattern.toLowerCase() of each entry of RETRYABLE_DB_ERRORS
LoweredPatterns ==
    [p \in 1..Len(RETRYABLE_DB_ERRORS) |-> ToLowerCase(RETRYABLE_DB_ERRORS[p])]

isRetryableDbErrorRawPatterns(error) ==
    IF error.kind \in {"null", "undefined"} THEN FALSE
    ELSE LET errorMessage == IF error.kind \in {"Error", "string"} THEN error.text
                             ELSE JSONStringify(error)
             errorString == ToLowerCase(errorMessage)
         IN \E p \in 1..Len(RETRYABLE_DB_ERRORS) :
                Includes(errorString, RETRYABLE_DB_ERRORS[p])

isRetryableDbError(error) ==
    IF error.kind \in {"null", "undefined"} THEN FALSE
    ELSE LET errorMessage == IF error.kind \in {"Error", "string"} THEN error.text
                             ELSE JSONStringify(error)
             errorString == ToLowerCase(errorMessage)
         IN \E p \in 1..Len(RETRYABLE_DB_ERRORS) :
                Includes(errorString, LoweredPatterns[p])

\* The isRetryable option, by name: "all" is the default () => true, "db" is
\* isRetryableDbError, "never" is a caller's () => false.
IsRetryable(name, error) ==
    CASE name = "all" -> TRUE
      [] name = "db" -> isRetryableDbError(error)
      [] OTHER -> FALSE

\* ------------------------------------------------------------ retry policy
\* The value of the maxAttempts option: <<n>> is the number n, <<>> is the
\* JavaScript value undefined.
Num(n) == <<n>>
Undefined == <<>>

\* retry.ts DEFAULT_OPTIONS (onRetry and onExhausted are recorded in the log)
DEFAULT_OPTIONS ==
    [maxAttempts |-> Num(3), initialDelay |-> 100, maxDelay |-> 5000,
     backoffMultiplier |-> 2, jitter |-> TRUE, isRetryable |-> "all"]

\* Object spread { ...a, ...b }: every own key of b, undefined values
\* included, overrides a.
Spread(a, b) ==
    [k \in (DOMAIN a) \cup (DOMAIN b) |-> IF k \in DOMAIN b THEN b[k] ELSE a[k]]

\* An options object holding the single key k, and the empty options object.
Key(k, v) == [x \in {k} |-> v]
NoKeys == <<>>

Pow(b, e) == IF e <= 0 THEN 1 ELSE LET F[i \in 0..e] == IF i = 0 THEN 1 ELSE b * F[i - 1] IN F[e]

MinPickingLarger(a, b) == IF a <= b THEN b ELSE a

Min(a, b) == IF a <= b THEN a ELSE b

calculateDelayUncapped(attempt, initialDelay, maxDelay, backoffMultiplier, jitter, rnd) ==
    LET baseDelay == initialDelay * Pow(backoffMultiplier, attempt - 1)
    IN IF ~jitter THEN baseDelay
       ELSE baseDelay + ((baseDelay * rnd) \div (2 * RandDen))

\* retry.ts calculateDelay; Math.random() returned rnd / RandDen.
calculateDelay(attempt, initialDelay, maxDelay, backoffMultiplier, jitter, rnd) ==
    LET baseDelay == Min(initialDelay * Pow(backoffMultiplier, attempt - 1), maxDelay)
    IN IF ~jitter THEN baseDelay
       ELSE baseDelay + ((baseDelay * rnd) \div (2 * RandDen))

\* One entry of the observable history of a retry invocation.
Ev(ev, err, n) == [ev |-> ev, err |-> err, n |-> n]

\* The state of retry(fn, options) at its entry: opts merged, attempt = 0.
RetryEntry(options) ==
    [pc |-> "entry", opts |-> Spread(DEFAULT_OPTIONS, options), attempt |-> 0,
     lastError |-> NoErr, log |-> <<>>, delay |-> 0,
     settled |-> "pending", value |-> 0, thrown |-> NoErr]

LoopCondStrict(rs) ==
    /\ Len(rs.opts.maxAttempts) = 1
    /\ rs.attempt < rs.opts.maxAttempts[1]

\* attempt <= opts.maxAttempts (a comparison with undefined is false)
LoopCond(rs) ==
    /\ Len(rs.opts.maxAttempts) = 1
    /\ rs.attempt <= rs.opts.maxAttempts[1]

\* attempt === opts.maxAttempts
IsLastAttempt(rs) ==
    /\ Len(rs.opts.maxAttempts) = 1
    /\ rs.attempt = rs.opts.maxAttempts[1]

\* The head of the for loop: either fn is invoked, or the loop is left and
\* the trailing `throw lastError` runs.
RetryLoop(rs) ==
    IF LoopCond(rs)
    THEN [rs EXCEPT !.pc = "fn", !.log = Append(@, Ev("fn", NoErr, rs.attempt))]
    ELSE [rs EXCEPT !.pc = "rejected", !.settled = "rejected", !.thrown = rs.lastError]

\* `return await fn()` when fn fulfilled with v.
RetryReturn(rs, v) ==
    [rs EXCEPT !.pc = "resolved", !.settled = "resolved", !.value = v,
               !.log = Append(@, Ev("fulfil", NoErr, v))]

ShouldStopIgnoringClass(rs, error) == IsLastAttempt(rs)

\* attempt === opts.maxAttempts || !opts.isRetryable(error)
ShouldStop(rs, error) ==
    IsLastAttempt(rs) \/ ~IsRetryable(rs.opts.isRetryable, error)

CallsOnExhaustedAlways(rs) == TRUE

\* the inner `if (attempt === opts.maxAttempts)` guarding opts.onExhausted
CallsOnExhausted(rs) == IsLastAttempt(rs)

\* The catch block when fn rejected with error.
RetryCatch(rs, error, rnd) ==
    LET caught == [rs EXCEPT !.lastError = error,
                             !.log = Append(@, Ev("catch", error, rs.attempt))]
    IN IF ShouldStop(rs, error)
       THEN [caught EXCEPT
               !.log = IF CallsOnExhausted(rs)
                       THEN Append(@, Ev("onExhausted", error, rs.attempt + 1))
                       ELSE @,
               !.pc = "rejected", !.settled = "rejected", !.thrown = error]
       ELSE LET delay == calculateDelay(rs.attempt + 1, rs.opts.initialDelay,
                                        rs.opts.maxDelay, rs.opts.backoffMultiplier,
                                        rs.opts.jitter, rnd)
            IN [caught EXCEPT
                  !.log = @ \o << Ev("onRetry", error, rs.attempt + 1),
                                  Ev("sleep", NoErr, rs.attempt + 1) >>,
                  !.delay = delay,
                  !.pc = "sleeping"]

RetryWakeSameAttempt(rs) ==
    RetryLoop([rs EXCEPT !.delay = 0, !.log = Append(@, Ev("wake", NoErr, 0))])

\* The timer of sleep(delay) fired: attempt++ and back to the loop head.
RetryWake(rs) ==
    RetryLoop([rs EXCEPT !.attempt = @ + 1, !.delay = 0,
                         !.log = Append(@, Ev("wake", NoErr, 0))])

\* The draws of Math.random() that calculateDelay makes for this state.
RandomDraws(rs) == IF rs.opts.jitter THEN 0..(RandDen - 1) ELSE {0}

\* Options objects passed to retry in SpecRetry.
RetryOptionInputs ==
    { Spread(Spread(Spread(ma, ir), j), md) :
        ma \in {NoKeys, Key("maxAttempts", Undefined)}
               \cup {Key("maxAttempts", Num(n)) : n \in 0..MaxRetries},
        ir \in {NoKeys, Key("isRetryable", "db"), Key("isRetryable", "never")},
        j  \in {NoKeys, Key("jitter", FALSE)},
        md \in {NoKeys, Key("maxDelay", 200)} }

\* Two entry points of retry.ts: createRetryWrapper and the retryDb preset
\* (its onRetry callback is recorded in the log).
RetryDbDefaults ==
    [maxAttempts |-> Num(5), initialDelay |-> 50, maxDelay |-> 2000,
     isRetryable |-> "db"]

\* createRetryWrapper(defaultOptions)(fn, overrideOptions): the state of the
\* retry call it makes.
createRetryWrapper(defaultOptions, overrideOptions) ==
    RetryEntry(Spread(defaultOptions, overrideOptions))

retryDb(overrideOptions) == createRetryWrapper(RetryDbDefaults, overrideOptions)

\* Override options passed to retryDb in SpecRetry.
RetryDbOverrideInputs ==
    {NoKeys, Key("maxAttempts", Undefined), Key("maxAttempts", Num(1)),
     Key("jitter", FALSE)}

\* retry(fn, options) is called.
RetryCall ==
    /\ r.pc = "entry"
    /\ r' = RetryLoop(r)
    /\ UNCHANGED <<init, mcp, calc, api, pth, fnd, cfg, auth, add>>

\* fn fulfils.
FnFulfil ==
    /\ r.pc = "fn"
    /\ \E v \in FnValues : r' = RetryReturn(r, v)
    /\ UNCHANGED <<init, mcp, calc, api, pth, fnd, cfg, auth, add>>

\* fn rejects.
FnReject ==
    /\ r.pc = "fn"
    /\ \E e \in FnErrors, rnd \in RandomDraws(r) : r' = RetryCatch(r, e, rnd)
    /\ UNCHANGED <<init, mcp, calc, api, pth, fnd, cfg, auth, add>>

\* The sleep between two attempts ends.
SleepDone ==
    /\ r.pc = "sleeping"
    /\ r' = RetryWake(r)
    /\ UNCHANGED <<init, mcp, calc, api, pth, fnd, cfg, auth, add>>

InitRetry ==
    /\ r \in {RetryEntry(o) : o \in RetryOptionInputs}
             \cup {retryDb(o) : o \in RetryDbOverrideInputs}
    /\ init = 0
    /\ mcp = 0
    /\ calc = 0
    /\ api = 0
    /\ pth = 0
    /\ fnd = 0
    /\ cfg = 0
    /\ auth = 0
    /\ add = 0

NextRetry == RetryCall \/ FnFulfil \/ FnReject \/ SleepDone

SpecRetry == InitRetry /\ [][NextRetry]_vars

\* ------------------------------------------------------------------- paths
\* A path is the sequence of its segments; an optional value is <<x>> or
\* Undefined.
Some(x) == <<x>>

Cwd == <<"w", "p">>
ParentDir == <<"w">>
HomeDir == <<"h">>

\* path.join(dir, name) and path.dirname(p)
join(p, name) == Append(p, name)
dirname(p) == SubSeq(p, 1, Len(p) - 1)

\* The directory p and its ancestors (mkdir -p creates them all).
WithAncestors(p) == {SubSeq(p, 1, n) : n \in 0..Len(p)}

GLOBAL_DIR_NAME == "fieldbooks"
PROJECT_DIR_NAME == ".fieldbook"
DB_FILE_NAME == "fieldbook.sqlite"

resolvePathsDatabaseInCwd(loadedConfig, options, env) ==
    LET home == IF env.HOME # Undefined THEN env.HOME[1] ELSE Cwd
        globalConfigHome ==
            IF env.xdgConfig # Undefined THEN env.xdgConfig[1] ELSE join(home, ".config")
        globalConfigDir == join(globalConfigHome, GLOBAL_DIR_NAME)
    IN IF options.global
       THEN [root |-> globalConfigDir,
             database |-> join(globalConfigDir, DB_FILE_NAME),
             projectConfig |-> Undefined,
             globalConfig |-> Some(join(globalConfigDir, "config.json"))]
       ELSE IF loadedConfig # Undefined
       THEN LET root == dirname(loadedConfig[1].filepath)
            IN [root |-> root,
                database |-> join(Cwd, DB_FILE_NAME),
                projectConfig |-> Some(loadedConfig[1].filepath),
                globalConfig |-> Some(join(globalConfigDir, "config.json"))]
       ELSE LET localRoot == join(Cwd, PROJECT_DIR_NAME)
            IN [root |-> localRoot,
                database |-> join(localRoot, DB_FILE_NAME),
                projectConfig |-> Some(join(localRoot, "config.json")),
                globalConfig |-> Some(join(globalConfigDir, "config.json"))]

resolvePathsGlobalProjectConfig(loadedConfig, options, env) ==
    LET home == IF env.HOME # Undefined THEN env.HOME[1] ELSE Cwd
        globalConfigHome ==
            IF env.xdgConfig # Undefined THEN env.xdgConfig[1] ELSE join(home, ".config")
        globalConfigDir == join(globalConfigHome, GLOBAL_DIR_NAME)
    IN IF options.global
       THEN [root |-> globalConfigDir,
             database |-> join(globalConfigDir, DB_FILE_NAME),
             projectConfig |-> Some(join(join(Cwd, PROJECT_DIR_NAME), "config.json")),
             globalConfig |-> Some(join(globalConfigDir, "config.json"))]
       ELSE IF loadedConfig # Undefined
       THEN LET root == dirname(loadedConfig[1].filepath)
            IN [root |-> root,
                database |-> join(root, DB_FILE_NAME),
                projectConfig |-> Some(loadedConfig[1].filepath),
                globalConfig |-> Some(join(globalConfigDir, "config.json"))]
       ELSE LET localRoot == join(Cwd, PROJECT_DIR_NAME)
            IN [root |-> localRoot,
                database |-> join(localRoot, DB_FILE_NAME),
                projectConfig |-> Some(join(localRoot, "config.json")),
                globalConfig |-> Some(join(globalConfigDir, "config.json"))]

\* paths.ts resolvePaths; env holds process.env.HOME and the xdgConfig export
\* of xdg-basedir.
resolvePaths(loadedConfig, options, env) ==
    LET home == IF env.HOME # Undefined THEN env.HOME[1] ELSE Cwd
        globalConfigHome ==
            IF env.xdgConfig # Undefined THEN env.xdgConfig[1] ELSE join(home, ".config")
        globalConfigDir == join(globalConfigHome, GLOBAL_DIR_NAME)
    IN IF options.global
       THEN [root |-> globalConfigDir,
             database |-> join(globalConfigDir, DB_FILE_NAME),
             projectConfig |-> Undefined,
             globalConfig |-> Some(join(globalConfigDir, "config.json"))]
       ELSE IF loadedConfig # Undefined
       THEN LET root == dirname(loadedConfig[1].filepath)
            IN [root |-> root,
                database |-> join(root, DB_FILE_NAME),
                projectConfig |-> Some(loadedConfig[1].filepath),
                globalConfig |-> Some(join(globalConfigDir, "config.json"))]
       ELSE LET localRoot == join(Cwd, PROJECT_DIR_NAME)
            IN [root |-> localRoot,
                database |-> join(localRoot, DB_FILE_NAME),
                projectConfig |-> Some(join(localRoot, "config.json")),
                globalConfig |-> Some(join(globalConfigDir, "config.json"))]

NoPaths == [root |-> <<>>, database |-> <<>>, projectConfig |-> Undefined,
            globalConfig |-> Undefined]

loadConfigSkippingValidation(found) ==
    IF found = Undefined THEN [ok |-> TRUE, value |-> Undefined, err |-> NoErr]
    ELSE [ok |-> TRUE, value |-> Some([filepath |-> found[1].filepath]), err |-> NoErr]

\* config.ts loadConfig: found is the result of explorer.search(cwd), either
\* Undefined or a file with its path and whether its content passes
\* FieldbookConfigSchema.parse.
loadConfig(found) ==
    IF found = Undefined THEN [ok |-> TRUE, value |-> Undefined, err |-> NoErr]
    ELSE IF found[1].valid
    THEN [ok |-> TRUE, value |-> Some([filepath |-> found[1].filepath]), err |-> NoErr]
    ELSE [ok |-> FALSE, value |-> Undefined, err |-> ErrConfigInvalid]

\* ------------------------------------------------------------- file system
\* Number of migrations in the drizzle migrations folder.
NumMigrations == 2

\* The content of a file: data names the bytes it was created with, applied
\* is the number of schema migrations recorded in it.
File(data, applied) == [exists |-> TRUE, data |-> data, applied |-> applied]
NoFile == [exists |-> FALSE, data |-> "", applied |-> 0]

LegacyDbPath == join(Cwd, "fieldbooks.sqlite")
LegacyDbPathAlt == join(Cwd, "fieldbook.sqlite")

\* fs.pathExists
pathExists(disk, p) == p \in DOMAIN disk.files /\ disk.files[p].exists

\* fs.ensureDir(dir): mkdir -p, or an I/O error.
ensureDir(disk, dir, ioFault) ==
    IF ioFault THEN [disk |-> disk, ok |-> FALSE, err |-> ErrAccess]
    ELSE [disk |-> [disk EXCEPT !.dirs = @ \cup WithAncestors(dir)],
          ok |-> TRUE, err |-> NoErr]

\* paths.ts ensureDatabaseDir
ensureDatabaseDir(disk, dbPath, ioFault) == ensureDir(disk, dirname(dbPath), ioFault)

moveKeepingSource(disk, src, dest, ioFault, existsCode) ==
    IF ioFault THEN [disk |-> disk, ok |-> FALSE, code |-> "EACCES"]
    ELSE IF pathExists(disk, dest) THEN [disk |-> disk, ok |-> FALSE, code |-> existsCode]
    ELSE [disk |-> [disk EXCEPT !.dirs = @ \cup WithAncestors(dirname(dest)),
                                !.files = [@ EXCEPT ![dest] = disk.files[src]]],
          ok |-> TRUE, code |-> ""]

\* fs.move(src, dest, { overwrite: false }) of fs-extra. It refuses an
\* existing destination; the `code` of that error is existsCode, which
\* depends on the fs-extra release ("EEXIST" when the refusal comes from the
\* link(2) call, "" when it is the library's own Error('dest already exists.')).
move(disk, src, dest, ioFault, existsCode) ==
    IF ioFault THEN [disk |-> disk, ok |-> FALSE, code |-> "EACCES"]
    ELSE IF pathExists(disk, dest) THEN [disk |-> disk, ok |-> FALSE, code |-> existsCode]
    ELSE [disk |-> [disk EXCEPT !.dirs = @ \cup WithAncestors(dirname(dest)),
                                !.files = [@ EXCEPT ![dest] = disk.files[src],
                                                    ![src] = NoFile]],
          ok |-> TRUE, code |-> ""]

LegacyPathSingularFirst(disk) ==
    IF pathExists(disk, LegacyDbPathAlt) THEN Some(LegacyDbPathAlt)
    ELSE IF pathExists(disk, LegacyDbPath) THEN Some(LegacyDbPath)
    ELSE Undefined

\* The legacy file migrateLegacyDb picks: the plural name first, then the
\* singular one.
LegacyPath(disk) ==
    IF pathExists(disk, LegacyDbPath) THEN Some(LegacyDbPath)
    ELSE IF pathExists(disk, LegacyDbPathAlt) THEN Some(LegacyDbPathAlt)
    ELSE Undefined

migrateLegacyDbSwallowingErrors(disk, newRootDir, ioFault, existsCode) ==
    LET legacyPath == LegacyPath(disk)
        newDbPath == join(newRootDir, "fieldbook.sqlite")
    IN IF legacyPath = Undefined
       THEN [disk |-> disk, ok |-> TRUE, err |-> NoErr, did |-> "none"]
       ELSE LET m == move(disk, legacyPath[1], newDbPath, ioFault, existsCode)
            IN IF m.ok THEN [disk |-> m.disk, ok |-> TRUE, err |-> NoErr, did |-> "moved"]
               ELSE IF m.code = "EEXIST"
               THEN [disk |-> disk, ok |-> TRUE, err |-> NoErr, did |-> "skipped"]
               ELSE [disk |-> disk, ok |-> TRUE, err |-> NoErr, did |-> "failed"]

\* db.ts migrateLegacyDb(newRootDir)
migrateLegacyDb(disk, newRootDir, ioFault, existsCode) ==
    LET legacyPath == LegacyPath(disk)
        newDbPath == join(newRootDir, "fieldbook.sqlite")
    IN IF legacyPath = Undefined
       THEN [disk |-> disk, ok |-> TRUE, err |-> NoErr, did |-> "none"]
       ELSE LET m == move(disk, legacyPath[1], newDbPath, ioFault, existsCode)
            IN IF m.ok THEN [disk |-> m.disk, ok |-> TRUE, err |-> NoErr, did |-> "moved"]
               ELSE IF m.code = "EEXIST"
               THEN [disk |-> disk, ok |-> TRUE, err |-> NoErr, did |-> "skipped"]
               ELSE [disk |-> disk, ok |-> FALSE, err |-> ErrMigrateLegacy, did |-> "failed"]

\* A fault injected into one attempt of the open+migrate sequence: the
\* sub-step that throws and whether the error is a transient one.
NoFault == [step |-> "none", transient |-> FALSE]
SetupFaults ==
    {NoFault} \cup [step : {"open", "pragma", "migrate"}, transient : BOOLEAN]

FaultError(fault) ==
    IF fault.transient THEN ErrBusy
    ELSE IF fault.step = "open" THEN ErrCantOpen ELSE ErrSyntax

OpenDatabaseReusingConnection(disk, dbPath) ==
    IF \E i \in 1..Len(disk.conns) : disk.conns[i] = dbPath THEN disk
    ELSE [disk EXCEPT
            !.files = IF disk.files[dbPath].exists THEN @
                      ELSE [@ EXCEPT ![dbPath] = File("new", 0)],
            !.conns = Append(@, dbPath)]

\* new Database(dbPath): creates the file when it is missing and adds an open
\* connection; the handle is the index of the connection.
OpenDatabase(disk, dbPath) ==
    [disk EXCEPT
       !.files = IF disk.files[dbPath].exists THEN @
                 ELSE [@ EXCEPT ![dbPath] = File("new", 0)],
       !.conns = Append(@, dbPath)]

\* migrate(db, { migrationsFolder }): applies the migrations the file does
\* not record yet, in order, in one transaction.
Pending(disk, dbPath) == (disk.files[dbPath].applied + 1)..NumMigrations

migrate(disk, dbPath) ==
    [disk EXCEPT !.files = [@ EXCEPT ![dbPath] =
        [@ EXCEPT !.applied = IF @ < NumMigrations THEN NumMigrations ELSE @]]]

\* The migrations of `from`..NumMigrations as "apply" events, in order.
ApplyEvents(from) ==
    [i \in 1..(IF from <= NumMigrations THEN NumMigrations - from + 1 ELSE 0)
        |-> Ev("apply", NoErr, from + i - 1)]

\* db.ts setupDatabase (fieldbooks-lib): the function handed to retryDb. It
\* runs synchronously: open, pragma foreign_keys = ON, migrate.
FieldbookSetupFn(disk, dbPath, fault) ==
    IF fault.step = "open" \/ dirname(dbPath) \notin disk.dirs
    THEN [disk |-> disk, ok |-> FALSE, value |-> 0,
          err |-> IF fault.step = "open" THEN FaultError(fault) ELSE ErrCantOpen,
          events |-> << Ev("open", NoErr, 0) >>]
    ELSE LET opened == OpenDatabase(disk, dbPath)
             h == Len(opened.conns)
         IN IF fault.step = "pragma"
            THEN [disk |-> opened, ok |-> FALSE, value |-> 0, err |-> FaultError(fault),
                  events |-> << Ev("open", NoErr, h), Ev("pragma", NoErr, h) >>]
            ELSE IF fault.step = "migrate"
            THEN [disk |-> opened, ok |-> FALSE, value |-> 0, err |-> FaultError(fault),
                  events |-> << Ev("open", NoErr, h), Ev("pragma", NoErr, h),
                                Ev("migrate", NoErr, h) >>]
            ELSE [disk |-> migrate(opened, dbPath), ok |-> TRUE, value |-> h, err |-> NoErr,
                  events |-> << Ev("open", NoErr, h), Ev("pragma", NoErr, h),
                                Ev("migrate", NoErr, h) >>
                             \o ApplyEvents(opened.files[dbPath].applied + 1)]

\* ------------------------------------------------------- store initializer
InitSequenceSetupBeforeMigration ==
    << "loadConfig", "resolvePaths", "ensureDatabaseDir", "setupDatabase", "migrateLegacyDb" >>

\* db.ts initializeDatabase: the calls it makes, in program order.
InitSequence ==
    << "loadConfig", "resolvePaths", "ensureDatabaseDir", "migrateLegacyDb", "setupDatabase" >>

\* The retry state of a call that has not reached setupDatabase.
IdleRetry == [RetryEntry(NoKeys) EXCEPT !.pc = "idle"]

\* The per-call state of initializeDatabase at its entry. files0 (the files
\* on disk when the call starts) and faults (the number of faults the
\* environment injected into the call) are history fields.
CallEntry(callNo, files) ==
    [callNo |-> callNo, pos |-> 1, status |-> "running", error |-> NoErr,
     handle |-> 0, loadedConfig |-> Undefined, paths |-> NoPaths,
     trace |-> <<>>, migration |-> "none", retry |-> IdleRetry,
     files0 |-> files, faults |-> 0]

CurrentStep(st) ==
    IF st.status = "running" /\ st.pos <= Len(InitSequence)
    THEN InitSequence[st.pos] ELSE "none"

\* The step at pos returned: the next statement runs, or the call returns.
Advance(st, name) ==
    [st EXCEPT !.trace = Append(@, name),
               !.pos = @ + 1,
               !.status = IF st.pos + 1 > Len(InitSequence) THEN "resolved" ELSE @]

\* The step at pos threw: initializeDatabase rejects with err.
Reject(st, name, err) ==
    [st EXCEPT !.trace = Append(@, name), !.status = "rejected", !.error = err]

Envs ==
    { [HOME |-> Some(HomeDir), xdgConfig |-> Some(join(HomeDir, ".config"))],
      [HOME |-> Undefined, xdgConfig |-> Undefined] }

ConfigSearchResults ==
    {Undefined} \cup
    { Some([filepath |-> join(d, "config.json"), valid |-> v]) :
        d \in {Cwd, ParentDir}, v \in BOOLEAN }

OptionInputs == [global : BOOLEAN]

\* Every database path resolvePaths can return, and every file of the model.
DbPaths ==
    { resolvePaths(loadConfig(f).value, o, e).database :
        f \in ConfigSearchResults, o \in OptionInputs, e \in Envs }

AllFiles == {LegacyDbPath, LegacyDbPathAlt} \cup DbPaths

\* The disks initializeDatabase may find: each legacy file present or not,
\* and the database file of the resolved root present or not.
InitialFiles(dbPath) ==
    { [f \in AllFiles |->
          IF f = dbPath /\ d.exists THEN d
          ELSE IF f = LegacyDbPath THEN l1
          ELSE IF f = LegacyDbPathAlt THEN l2
          ELSE NoFile] :
        l1 \in {NoFile, File("L1", 1)},
        l2 \in {NoFile, File("L2", 0)},
        d \in {NoFile, File("D0", NumMigrations)} }

DirsOf(files) ==
    UNION ({WithAncestors(Cwd), WithAncestors(HomeDir)}
           \cup {WithAncestors(dirname(f)) : f \in {g \in AllFiles : files[g].exists}})

InitialDisks(dbPath) ==
    { [files |-> fl, dirs |-> DirsOf(fl), conns |-> <<>>] : fl \in InitialFiles(dbPath) }

LoadConfigStep ==
    /\ CurrentStep(init.call) = "loadConfig"
    /\ LET res == loadConfig(init.found)
       IN init' = [init EXCEPT !.call =
              IF res.ok
              THEN Advance([@ EXCEPT !.loadedConfig = res.value], "loadConfig")
              ELSE Reject(@, "loadConfig", res.err)]
    /\ UNCHANGED <<r, mcp, calc, api, pth, fnd, cfg, auth, add>>

ResolvePathsStep ==
    /\ CurrentStep(init.call) = "resolvePaths"
    /\ init' = [init EXCEPT !.call =
          Advance([@ EXCEPT !.paths = resolvePaths(init.call.loadedConfig,
                                                   init.options, init.env)],
                  "resolvePaths")]
    /\ UNCHANGED <<r, mcp, calc, api, pth, fnd, cfg, auth, add>>

EnsureDirStep ==
    /\ CurrentStep(init.call) = "ensureDatabaseDir"
    /\ \E ioFault \in BOOLEAN :
          LET res == ensureDatabaseDir(init.disk, init.call.paths.database, ioFault)
          IN init' = [init EXCEPT
                 !.disk = res.disk,
                 !.call = IF res.ok THEN Advance(@, "ensureDatabaseDir")
                          ELSE Reject([@ EXCEPT !.faults = @ + 1],
                                      "ensureDatabaseDir", res.err)]
    /\ UNCHANGED <<r, mcp, calc, api, pth, fnd, cfg, auth, add>>

\* The release of fs-extra the process runs with is fixed for the run: the
\* code it gives the refusal of an existing destination is drawn when fs.move
\* first refuses one.
MoveExistsCodes(st) ==
    IF st.moveExistsCode = "unknown" THEN {"EEXIST", ""} ELSE {st.moveExistsCode}

MoveRefused(disk, newRootDir, ioFault) ==
    /\ LegacyPath(disk) # Undefined
    /\ ~ioFault
    /\ pathExists(disk, join(newRootDir, "fieldbook.sqlite"))

MigrateLegacyStep ==
    /\ CurrentStep(init.call) = "migrateLegacyDb"
    /\ \E ioFault \in IF LegacyPath(init.disk) = Undefined THEN {FALSE} ELSE BOOLEAN,
          code \in MoveExistsCodes(init) :
          LET res == migrateLegacyDb(init.disk, init.call.paths.root, ioFault, code)
          IN init' = [init EXCEPT
                 !.disk = res.disk,
                 !.moveExistsCode =
                     IF MoveRefused(init.disk, init.call.paths.root, ioFault)
                     THEN code ELSE @,
                 !.call = IF res.ok
                          THEN Advance([@ EXCEPT !.migration = res.did,
                                                 !.faults = IF ioFault THEN @ + 1 ELSE @],
                                       "migrateLegacyDb")
                          ELSE Reject([@ EXCEPT !.migration = res.did,
                                                !.faults = IF ioFault THEN @ + 1 ELSE @],
                                      "migrateLegacyDb", res.err)]
    /\ UNCHANGED <<r, mcp, calc, api, pth, fnd, cfg, auth, add>>

\* setupDatabase(paths.database) calls retryDb(fn, { onRetry }).
SetupStart ==
    /\ CurrentStep(init.call) = "setupDatabase"
    /\ init.call.retry.pc = "idle"
    /\ init' = [init EXCEPT !.call.retry = RetryLoop(retryDb(NoKeys))]
    /\ UNCHANGED <<r, mcp, calc, api, pth, fnd, cfg, auth, add>>

\* The faults one attempt may meet. Contention on the store shows at one
\* sub-step per run (hazard, drawn at the first transient fault); a permanent
\* fault may hit any sub-step.
HazardFaults(hazard) ==
    {f \in SetupFaults : f.transient => hazard \in {"none", f.step}}

\* One attempt of the function handed to retryDb.
SetupAttempt ==
    /\ CurrentStep(init.call) = "setupDatabase"
    /\ init.call.retry.pc = "fn"
    /\ \E fault \in HazardFaults(init.hazard), rnd \in RandomDraws(init.call.retry) :
          LET res == FieldbookSetupFn(init.disk, init.call.paths.database, fault)
              rs == [init.call.retry EXCEPT !.log = @ \o res.events]
          IN init' = [init EXCEPT
                 !.disk = res.disk,
                 !.hazard = IF fault.transient THEN fault.step ELSE @,
                 !.call.faults = IF fault = NoFault THEN @ ELSE @ + 1,
                 !.call.retry = IF res.ok THEN RetryReturn(rs, res.value)
                                ELSE RetryCatch(rs, res.err, rnd)]
    /\ UNCHANGED <<r, mcp, calc, api, pth, fnd, cfg, auth, add>>

SetupSleepDone ==
    /\ CurrentStep(init.call) = "setupDatabase"
    /\ init.call.retry.pc = "sleeping"
    /\ init' = [init EXCEPT !.call.retry = RetryWake(@)]
    /\ UNCHANGED <<r, mcp, calc, api, pth, fnd, cfg, auth, add>>

\* The promise of retryDb settled: setupDatabase returns its value or throws.
SetupSettle ==
    /\ CurrentStep(init.call) = "setupDatabase"
    /\ init.call.retry.settled # "pending"
    /\ init' = [init EXCEPT !.call =
          IF init.call.retry.settled = "resolved"
          THEN Advance([@ EXCEPT !.handle = init.call.retry.value], "setupDatabase")
          ELSE Reject(@, "setupDatabase", init.call.retry.thrown)]
    /\ UNCHANGED <<r, mcp, calc, api, pth, fnd, cfg, auth, add>>

\* initializeDatabase returned a handle and the caller calls it again, with
\* the same options, in the same process and working directory.
SecondCall ==
    /\ init.call.status = "resolved"
    /\ init.call.callNo = 1
    /\ init' = [init EXCEPT
          !.prev = [status |-> init.call.status, files |-> init.disk.files,
                    paths |-> init.call.paths, handle |-> init.call.handle],
          !.call = CallEntry(2, init.disk.files)]
    /\ UNCHANGED <<r, mcp, calc, api, pth, fnd, cfg, auth, add>>

NoPrev == [status |-> "none", files |-> <<>>, paths |-> NoPaths, handle |-> 0]

InitInit ==
    /\ \E o \in OptionInputs, e \in Envs, f \in ConfigSearchResults :
         \E d \in InitialDisks(resolvePaths(loadConfig(f).value, o, e).database) :
            init = [options |-> o, env |-> e, found |-> f,
                    moveExistsCode |-> "unknown", hazard |-> "none",
                    disk |-> d, call |-> CallEntry(1, d.files), prev |-> NoPrev]
    /\ r = 0
    /\ mcp = 0
    /\ calc = 0
    /\ api = 0
    /\ pth = 0
    /\ fnd = 0
    /\ cfg = 0
    /\ auth = 0
    /\ add = 0

NextInit ==
    \/ LoadConfigStep
    \/ ResolvePathsStep
    \/ EnsureDirStep
    \/ MigrateLegacyStep
    \/ SetupStart
    \/ SetupAttempt
    \/ SetupSleepDone
    \/ SetupSettle
    \/ SecondCall

SpecInit == InitInit /\ [][NextInit]_vars

\* ------------------------------------------------------------- MCP server
\* Number of tool requests the client sends.
NumRequests == 2

\* Largest number of setup attempts of one server process that meet a fault.
MaxSetupFaults == 2

Reqs == 1..NumRequests

\* const dbPath = resolve('./trails.sqlite')
TrailsDbPath == join(Cwd, "trails.sqlite")

\* TrailsDbError(`Failed to open database at ${dbPath}`, 'setupDatabase')
ErrTrailsOpen ==
    Err("Error", <<"F","a","i","l","e","d"," ","t","o"," ","o","p","e","n"," ","d","a","t","a","b","a","s","e"," ","a","t"," ","/","w","/","p","/","t","r","a","i","l","s",".","s","q","l","i","t","e">>, "setupDatabase")

\* String(error) of an Error object: its name, ": ", its message.
StringOfError(error) ==
    IF error.kind = "Error" THEN <<"S","q","l","i","t","e","E","r","r","o","r",":"," ">> \o error.text
    ELSE error.text

\* TrailsDbError(`Failed to run migrations: ${String(error)}`, 'migrate')
ErrTrailsMigrate(error) ==
    Err("Error", <<"F","a","i","l","e","d"," ","t","o"," ","r","u","n"," ","m","i","g","r","a","t","i","o","n","s",":"," ">> \o StringOfError(error), "migrate")

\* db.ts setupDatabase (trails-lib): the function handed to retryDb. It runs
\* synchronously: open (a failure is wrapped), pragma foreign_keys = ON,
\* migrate (a failure is wrapped).
TrailsSetupFn(disk, dbPath, fault) ==
    IF fault.step = "open" \/ dirname(dbPath) \notin disk.dirs
    THEN [disk |-> disk, ok |-> FALSE, value |-> 0, err |-> ErrTrailsOpen,
          events |-> << Ev("open", NoErr, 0) >>]
    ELSE LET opened == OpenDatabase(disk, dbPath)
             h == Len(opened.conns)
         IN IF fault.step = "pragma"
            THEN [disk |-> opened, ok |-> FALSE, value |-> 0, err |-> FaultError(fault),
                  events |-> << Ev("open", NoErr, h), Ev("pragma", NoErr, h) >>]
            ELSE IF fault.step = "migrate"
            THEN [disk |-> opened, ok |-> FALSE, value |-> 0,
                  err |-> ErrTrailsMigrate(FaultError(fault)),
                  events |-> << Ev("open", NoErr, h), Ev("pragma", NoErr, h),
                                Ev("migrate", NoErr, h) >>]
            ELSE [disk |-> migrate(opened, dbPath), ok |-> TRUE, value |-> h, err |-> NoErr,
                  events |-> << Ev("open", NoErr, h), Ev("pragma", NoErr, h),
                                Ev("migrate", NoErr, h) >>
                             \o ApplyEvents(opened.files[dbPath].applied + 1)]

ToolNames == {"addNote", "listNotes", "other"}

\* A tool request the client has not sent yet. used is the handle the
\* request passed to addNote / listNotes (0: none).
ReqEntry ==
    [pc |-> "unsent", retry |-> IdleRetry, used |-> 0, isError |-> FALSE]

\* The faults the next setup attempt of the process may meet.
McpFaults(m) ==
    IF m.faults < MaxSetupFaults THEN HazardFaults(m.hazard) ELSE {NoFault}

\* The loop of retry reached fn: one synchronous run of the setup function.
McpAttempt(m, q, rs, fault, rnd) ==
    IF rs.pc # "fn" THEN [m EXCEPT !.req[q].retry = rs]
    ELSE LET res == TrailsSetupFn(m.disk, TrailsDbPath, fault)
             ran == [rs EXCEPT !.log = @ \o res.events]
         IN [m EXCEPT
               !.disk = res.disk,
               !.hazard = IF fault.transient THEN fault.step ELSE @,
               !.faults = IF fault = NoFault THEN @ ELSE @ + 1,
               !.req[q].retry = IF res.ok THEN RetryReturn(ran, res.value)
                                ELSE RetryCatch(ran, res.err, rnd)]

\* validateNoteInput / validateListOptions passed or threw, then
\* addNote(db, input) / listNotes(db, options) is called with the current
\* value of the module-level db.
McpUse(m, q, valid) ==
    IF valid THEN [m EXCEPT !.req[q].pc = "calling", !.req[q].used = m.db]
    ELSE [m EXCEPT !.req[q].pc = "done", !.req[q].isError = TRUE]

\* The CallToolRequest handler runs up to its first await: the argument
\* check, the switch, `if (db === null)` and, when db is null, initializeDb()
\* -> setupDatabase(dbPath) -> retryDb(fn) with its first attempt.
McpRequest(q) ==
    /\ mcp.req[q].pc = "unsent"
    /\ \E name \in ToolNames, hasArgs \in BOOLEAN :
          IF ~hasArgs \/ name = "other"
          THEN mcp' = [mcp EXCEPT !.req[q].pc = "done", !.req[q].isError = TRUE]
          ELSE IF mcp.db = 0
          THEN \E fault \in McpFaults(mcp), rnd \in RandomDraws(retryDb(NoKeys)) :
                  mcp' = McpAttempt([mcp EXCEPT !.req[q].pc = "initializing"], q,
                                    RetryLoop(retryDb(NoKeys)), fault, rnd)
          ELSE \E valid \in BOOLEAN : mcp' = McpUse(mcp, q, valid)
    /\ UNCHANGED <<r, init, calc, api, pth, fnd, cfg, auth, add>>

\* The sleep of a setup retry ends: attempt++ and, if the loop goes on, the
\* next attempt.
McpSetupWake(q) ==
    /\ mcp.req[q].pc = "initializing"
    /\ mcp.req[q].retry.pc = "sleeping"
    /\ \E fault \in McpFaults(mcp), rnd \in RandomDraws(mcp.req[q].retry) :
          mcp' = McpAttempt(mcp, q, RetryWake(mcp.req[q].retry), fault, rnd)
    /\ UNCHANGED <<r, init, calc, api, pth, fnd, cfg, auth, add>>

\* initializeDb resumes after its await: db = <the handle setupDatabase
\* resolved with>.
McpAssignDb(q) ==
    /\ mcp.req[q].pc = "initializing"
    /\ mcp.req[q].retry.settled = "resolved"
    /\ mcp' = [mcp EXCEPT !.db = mcp.req[q].retry.value,
                          !.req[q].pc = "initialized"]
    /\ UNCHANGED <<r, init, calc, api, pth, fnd, cfg, auth, add>>

\* setupDatabase rejected: initializeDb rejects and the handler's catch
\* answers with isError.
McpInitFailed(q) ==
    /\ mcp.req[q].pc = "initializing"
    /\ mcp.req[q].retry.settled = "rejected"
    /\ mcp' = [mcp EXCEPT !.req[q].pc = "done", !.req[q].isError = TRUE]
    /\ UNCHANGED <<r, init, calc, api, pth, fnd, cfg, auth, add>>

\* The handler resumes after `await initializeDb()`: the second null check,
\* the validation and the call of the tool function with db.
McpResume(q) ==
    /\ mcp.req[q].pc = "initialized"
    /\ \E valid \in BOOLEAN :
          mcp' = IF mcp.db = 0
                 THEN [mcp EXCEPT !.req[q].pc = "done", !.req[q].isError = TRUE]
                 ELSE McpUse(mcp, q, valid)
    /\ UNCHANGED <<r, init, calc, api, pth, fnd, cfg, auth, add>>

\* addNote / listNotes settled and the response is sent.
McpRespond(q) ==
    /\ mcp.req[q].pc = "calling"
    /\ \E failed \in BOOLEAN :
          mcp' = [mcp EXCEPT !.req[q].pc = "done", !.req[q].isError = failed]
    /\ UNCHANGED <<r, init, calc, api, pth, fnd, cfg, auth, add>>

\* The server process starts: `let db = null`, and ./trails.sqlite exists
\* or not.
InitMcp ==
    /\ \E f \in {NoFile, File("T0", NumMigrations)} :
          mcp = [db |-> 0,
                 disk |-> [files |-> [p \in {TrailsDbPath} |-> f],
                           dirs |-> WithAncestors(Cwd), conns |-> <<>>],
                 hazard |-> "none", faults |-> 0,
                 req |-> [q \in Reqs |-> ReqEntry]]
    /\ r = 0
    /\ init = 0
    /\ calc = 0
    /\ api = 0
    /\ pth = 0
    /\ fnd = 0
    /\ cfg = 0
    /\ auth = 0
    /\ add = 0

Request == \E q \in Reqs : McpRequest(q)
SetupWake == \E q \in Reqs : McpSetupWake(q)
AssignDb == \E q \in Reqs : McpAssignDb(q)
InitFailed == \E q \in Reqs : McpInitFailed(q)
Resume == \E q \in Reqs : McpResume(q)
Respond == \E q \in Reqs : McpRespond(q)

NextMcp == Request \/ SetupWake \/ AssignDb \/ InitFailed \/ Resume \/ Respond

SpecMcp == InitMcp /\ [][NextMcp]_vars

\* --------------------------------------------------- retry policy: claims
\* The entries of a log that are ev events, in order.
Events(log, ev) == SelectSeq(log, LAMBDA x : x.ev = ev)

FnCalls(rs) == Len(Events(rs.log, "fn"))

HasBudget(rs) == Len(rs.opts.maxAttempts) = 1

Budget(rs) == rs.opts.maxAttempts[1]

AllCaughtRetryable(rs) ==
    \A i \in 1..Len(rs.log) :
        rs.log[i].ev = "catch" => IsRetryable(rs.opts.isRetryable, rs.log[i].err)

LastCatch(rs) == Events(rs.log, "catch")[Len(Events(rs.log, "catch"))]

\* C1: with a numeric maxAttempts >= 0, fn is never invoked more than
\* maxAttempts + 1 times; and when every invocation rejected with a retryable
\* error and retry has rejected, fn was invoked exactly maxAttempts + 1 times,
\* the rejection carries the error of the last invocation, and onExhausted was
\* called exactly once, with (that error, maxAttempts + 1).
C1_ExhaustsBudget ==
    HasBudget(r) =>
        /\ FnCalls(r) <= Budget(r) + 1
        /\ (r.settled = "rejected" /\ AllCaughtRetryable(r)) =>
              /\ FnCalls(r) = Budget(r) + 1
              /\ Len(Events(r.log, "catch")) = Budget(r) + 1
              /\ r.thrown = LastCatch(r).err
              /\ Events(r.log, "onExhausted")
                     = << Ev("onExhausted", LastCatch(r).err, Budget(r) + 1) >>
              /\ r.log[Len(r.log)].ev = "onExhausted"

C1_Witness ==
    /\ HasBudget(r) /\ Budget(r) >= 2
    /\ r.opts.isRetryable = "db"
    /\ r.settled = "rejected" /\ AllCaughtRetryable(r)
    /\ FnCalls(r) = Budget(r) + 1

\* The log of a run in which fn rejected k times and then fulfilled with v:
\* k rounds of fn, catch, onRetry(i), sleep, wake, then fn and the fulfilment.
IsRetryThenSuccessLog(log, k) ==
    /\ Len(log) = 5 * k + 2
    /\ \A i \in 1..k :
          /\ log[5 * (i - 1) + 1].ev = "fn"
          /\ log[5 * (i - 1) + 2].ev = "catch"
          /\ log[5 * (i - 1) + 3].ev = "onRetry"
          /\ log[5 * (i - 1) + 3].n = i
          /\ log[5 * (i - 1) + 3].err = log[5 * (i - 1) + 2].err
          /\ log[5 * (i - 1) + 4].ev = "sleep"
          /\ log[5 * (i - 1) + 5].ev = "wake"
    /\ log[5 * k + 1].ev = "fn"
    /\ log[5 * k + 2].ev = "fulfil"

\* C2: when fn rejected k times with retryable errors and then fulfilled,
\* retry has invoked fn k + 1 times, resolves with the fulfilment value, has
\* not called onExhausted, and has called onRetry k times with attempt numbers
\* 1..k in order, each followed by one sleep that ended before the next
\* invocation of fn.
C2_RetryThenSuccess ==
    r.settled = "resolved" =>
        LET k == Len(Events(r.log, "catch"))
        IN /\ k <= Budget(r)
           /\ AllCaughtRetryable(r)
           /\ FnCalls(r) = k + 1
           /\ IsRetryThenSuccessLog(r.log, k)
           /\ r.value = r.log[Len(r.log)].n
           /\ Events(r.log, "onExhausted") = <<>>
           /\ Len(Events(r.log, "onRetry")) = k
           /\ Len(Events(r.log, "sleep")) = k

C2_Witness ==
    /\ r.settled = "resolved"
    /\ Len(Events(r.log, "catch")) = 2
    /\ Budget(r) = 3
    /\ r.value = 2

\* C3: once fn has rejected with an error that isRetryable refuses, retry is
\* rejected with that same error, and that rejection is followed by no
\* invocation of fn, no onRetry call and no sleep, whatever maxAttempts is
\* and whichever attempt it was.
C3_NonRetryableStops ==
    \A i \in 1..Len(r.log) :
        (r.log[i].ev = "catch" /\ ~IsRetryable(r.opts.isRetryable, r.log[i].err)) =>
            /\ r.settled = "rejected"
            /\ r.thrown = r.log[i].err
            /\ \A j \in (i + 1)..Len(r.log) :
                   r.log[j].ev \notin {"fn", "onRetry", "sleep", "wake", "catch"}

C3_Witness ==
    /\ r.settled = "rejected"
    /\ HasBudget(r) /\ Budget(r) >= 2
    /\ LastCatch(r).n = 1
    /\ ~IsRetryable(r.opts.isRetryable, LastCatch(r).err)
    /\ FnCalls(r) = 2

\* C4 as stated: whenever retry stopped on an error that isRetryable refuses,
\* onExhausted was not called, whichever attempt that was.
C4_Original ==
    (r.settled = "rejected" /\ Len(Events(r.log, "catch")) > 0
       /\ ~IsRetryable(r.opts.isRetryable, LastCatch(r).err)) =>
        Events(r.log, "onExhausted") = <<>>

\* C4 amended: onExhausted is called only on the last permitted attempt
\* (attempt index = maxAttempts); a non-retryable error on an earlier attempt
\* stops retry without onExhausted, and one on the last permitted attempt
\* calls onExhausted once with (error, maxAttempts + 1).
C4_OnExhaustedOnlyOnLastAttempt ==
    /\ \A i \in 1..Len(r.log) :
          r.log[i].ev = "onExhausted" =>
              /\ HasBudget(r)
              /\ r.log[i].n = Budget(r) + 1
              /\ FnCalls(r) = Budget(r) + 1
    /\ (r.settled = "rejected" /\ Len(Events(r.log, "catch")) > 0
          /\ ~IsRetryable(r.opts.isRetryable, LastCatch(r).err)) =>
           IF LastCatch(r).n < Budget(r)
           THEN Events(r.log, "onExhausted") = <<>>
           ELSE Events(r.log, "onExhausted")
                    = << Ev("onExhausted", LastCatch(r).err, Budget(r) + 1) >>

C4_Witness ==
    /\ r.settled = "rejected"
    /\ HasBudget(r) /\ Budget(r) >= 2
    /\ Len(Events(r.log, "catch")) = 2
    /\ ~IsRetryable(r.opts.isRetryable, LastCatch(r).err)
    /\ Events(r.log, "onExhausted") = <<>>

\* ----------------------------------------------- store initializer: claims
ExpectedOrder ==
    << "loadConfig", "resolvePaths", "ensureDatabaseDir", "migrateLegacyDb", "setupDatabase" >>

IsPrefix(a, b) == Len(a) <= Len(b) /\ a = SubSeq(b, 1, Len(a))

Done(st, name) == \E i \in 1..Len(st.trace) : st.trace[i] = name

\* The database was opened or created by the current call.
TouchedDatabase(st) ==
    \/ st.call.retry.pc # "idle"
    \/ Events(st.call.retry.log, "open") # <<>>
    \/ st.call.callNo = 1 /\ Len(st.disk.conns) > 0
    \/ \E f \in AllFiles : st.disk.files[f].exists /\ ~st.call.files0[f].exists
                           /\ st.disk.files[f].data = "new"

\* C5: a call of initializeDatabase runs load config, resolve paths, create
\* the database directory, legacy migration, open+migrate in that order, one
\* after the other; the database file is opened or created only after the
\* legacy migration step has returned.
C5_StepsInOrder ==
    /\ IsPrefix(init.call.trace, ExpectedOrder)
    /\ TouchedDatabase(init) =>
          /\ IsPrefix(SubSeq(ExpectedOrder, 1, 4), init.call.trace)
          /\ init.call.migration # "failed"

C5_Witness ==
    /\ init.call.callNo = 1
    /\ init.call.migration = "moved"
    /\ Events(init.call.retry.log, "open") # <<>>
    /\ init.call.status = "resolved"

\* The destination of the legacy migration of the current call.
NewDbPath(st) == join(st.call.paths.root, "fieldbook.sqlite")

Files0(st) == [files |-> st.call.files0]

\* C6 as stated: a second call of initializeDatabase after a successful
\* first one, in which the environment injects no fault, succeeds, returns a
\* handle on the same database file, applies no schema migration, and leaves
\* the files as the first call left them.
C6_Original ==
    (init.call.callNo = 2 /\ init.call.status # "running" /\ init.call.faults = 0) =>
        /\ init.call.status = "resolved"
        /\ init.disk.conns[init.call.handle] = init.disk.conns[init.prev.handle]
        /\ Events(init.call.retry.log, "apply") = <<>>
        /\ init.disk.files = init.prev.files

\* C7 as stated: when the legacy migration step runs with a legacy file in
\* the working directory and another file already at the destination, it
\* leaves both files as they were and raises no error, and the call goes on
\* to open the existing destination.
C7_Original ==
    (/\ Done(init.call, "migrateLegacyDb")
     /\ init.call.faults = 0
     /\ LegacyPath(Files0(init)) # Undefined
     /\ pathExists(Files0(init), NewDbPath(init))
     /\ LegacyPath(Files0(init)) # Some(NewDbPath(init))) =>
        /\ init.call.migration = "skipped"
        /\ init.call.status # "rejected"
        /\ init.disk.files[LegacyPath(Files0(init))[1]]
               = init.call.files0[LegacyPath(Files0(init))[1]]
        /\ init.disk.files[NewDbPath(init)].data = init.call.files0[NewDbPath(init)].data
        /\ init.call.status = "resolved" =>
               init.disk.conns[init.call.handle] = NewDbPath(init)

\* C8: when the legacy migration step has run with a legacy file in the
\* working directory and no file at the destination, and the move did not
\* fail, the legacy path no longer exists and the destination holds the
\* legacy file's original content; the handle the call then returns is open
\* on that file.
C8_LegacyMoved ==
    (/\ Done(init.call, "migrateLegacyDb")
     /\ init.call.migration # "failed"
     /\ LegacyPath(Files0(init)) # Undefined
     /\ ~pathExists(Files0(init), NewDbPath(init))) =>
        LET legacy == LegacyPath(Files0(init))[1]
        IN /\ init.call.migration = "moved"
           /\ ~init.disk.files[legacy].exists
           /\ init.disk.files[NewDbPath(init)].exists
           /\ init.disk.files[NewDbPath(init)].data = init.call.files0[legacy].data
           /\ init.disk.files[NewDbPath(init)].applied >= init.call.files0[legacy].applied
           /\ init.call.retry.pc = "idle" =>
                  init.disk.files[NewDbPath(init)] = init.call.files0[legacy]
           /\ init.call.status = "resolved" =>
                  /\ init.call.handle \in 1..Len(init.disk.conns)
                  /\ init.disk.conns[init.call.handle] = NewDbPath(init)
                  /\ init.call.paths.database = NewDbPath(init)

C8_Witness ==
    /\ init.call.migration = "moved"
    /\ init.call.status = "resolved"
    /\ init.call.files0[LegacyDbPath].exists
    /\ init.disk.files[NewDbPath(init)].data = "L1"
    /\ ~init.disk.files[LegacyDbPath].exists

\* The sub-steps an attempt ran, given the log entries that follow its "fn"
\* entry at index j: a fresh open, then pragma, then migrate, cut short only
\* where a sub-step threw.
AttemptRepeatsWholeSequence(log, j) ==
    /\ log[j + 1].ev = "open"
    /\ log[j + 1].n > 0 =>
          /\ \A i \in 1..j : log[i].ev = "open" => log[i].n < log[j + 1].n
          /\ log[j + 2].ev = "pragma" /\ log[j + 2].n = log[j + 1].n
          /\ log[j + 3].ev \in {"migrate", "catch"}
          /\ log[j + 3].ev = "migrate" => log[j + 3].n = log[j + 1].n

\* C9: after an attempt failed with a transient error raised while applying
\* migrations, the next attempt runs the whole sequence again (a new open of
\* the database file, the pragma, the migrations); config loading, path
\* resolution, directory creation and legacy migration are not run again.
C9_WholeSequenceRetried ==
    LET log == init.call.retry.log
    IN /\ \A i \in 2..Len(log) :
             (log[i].ev = "catch" /\ log[i - 1].ev = "migrate"
                /\ isRetryableDbError(log[i].err)
                /\ log[i].n < Budget(init.call.retry)) =>
                 /\ Len(log) >= i + 2 /\ log[i + 1].ev = "onRetry" /\ log[i + 2].ev = "sleep"
                 /\ Len(log) >= i + 5 =>
                        /\ log[i + 3].ev = "wake" /\ log[i + 4].ev = "fn"
                        /\ AttemptRepeatsWholeSequence(log, i + 4)
       /\ init.call.retry.pc # "idle" =>
             /\ IsPrefix(SubSeq(ExpectedOrder, 1, 4), init.call.trace)
             /\ IsPrefix(init.call.trace, ExpectedOrder)
       /\ (init.call.retry.pc # "idle" /\ init.call.migration = "moved") =>
             ~init.disk.files[LegacyPath(Files0(init))[1]].exists

C9_Witness ==
    LET log == init.call.retry.log
    IN /\ init.call.status = "resolved"
       /\ \E i \in 2..Len(log) :
             /\ log[i].ev = "catch" /\ log[i - 1].ev = "migrate"
             /\ log[i].err = ErrBusy
             /\ Len(log) >= i + 7
             /\ log[i + 5].ev = "open" /\ log[i + 5].n = 2
             /\ log[i + 7].ev = "migrate"

\* ------------------------------------------------------- MCP server: claims
\* The requests whose setupDatabase call resolved with a handle.
Created(m) == {q \in Reqs : m.req[q].retry.settled = "resolved"}

\* C10 as stated: in every interleaving of tool requests the store handle is
\* created at most once per process (at most one setupDatabase call resolves
\* with a handle), and every request that calls a tool function passes it
\* that one handle.
C10_Original ==
    /\ Cardinality(Created(mcp)) <= 1
    /\ \A q1, q2 \in Reqs :
          (mcp.req[q1].used # 0 /\ mcp.req[q2].used # 0) =>
              mcp.req[q1].used = mcp.req[q2].used

NothingOpened(st) ==
    /\ st.call.retry.pc = "idle"
    /\ st.call.retry.log = <<>>
    /\ st.call.handle = 0
    /\ st.call.callNo = 1 => st.disk.conns = <<>>

\* C14: when the discovered configuration violates the schema, loadConfig
\* rejects with the validation error, initializeDatabase rejects with that
\* same error after loadConfig alone, and nothing later has run: no
\* directory was created, no file moved, no database opened, no retry made.
C14_InvalidConfigIsFatal ==
    (init.found # Undefined /\ ~init.found[1].valid /\ init.call.trace # <<>>) =>
        /\ init.call.status = "rejected"
        /\ init.call.error = ErrConfigInvalid
        /\ init.call.trace = << "loadConfig" >>
        /\ init.call.paths = NoPaths
        /\ init.disk.files = init.call.files0
        /\ init.disk.dirs = DirsOf(init.call.files0)
        /\ init.call.migration = "none"
        /\ NothingOpened(init)

C14_Witness ==
    /\ init.found # Undefined /\ ~init.found[1].valid
    /\ init.call.status = "rejected"
    /\ init.call.error = ErrConfigInvalid
    /\ init.call.files0[LegacyDbPath].exists
    /\ init.disk.files[LegacyDbPath].exists

\* C15: when the move of the legacy file failed for a reason other than an
\* existing destination (an I/O fault), migrateLegacyDb threw the database
\* error tagged 'migrateLegacyDb', initializeDatabase rejected with it at
\* that step, the files are as they were and no database was opened.
C15_MoveFailureIsFatal ==
    (Done(init.call, "migrateLegacyDb") /\ init.call.migration = "failed"
       /\ init.call.faults > 0) =>
        /\ init.call.status = "rejected"
        /\ init.call.error = ErrMigrateLegacy
        /\ init.call.error.op = "migrateLegacyDb"
        /\ init.call.trace = SubSeq(ExpectedOrder, 1, 4)
        /\ init.disk.files = init.call.files0
        /\ NothingOpened(init)

C15_Witness ==
    /\ init.call.migration = "failed"
    /\ init.call.faults = 1
    /\ init.call.status = "rejected"
    /\ init.moveExistsCode = "unknown"
    /\ ~pathExists(Files0(init), NewDbPath(init))
    /\ LegacyPath(Files0(init)) # Undefined

\* e is an error built around cause: it has an operation tag and its message
\* holds the message of cause and more.
IsWrapperOf(e, cause) ==
    /\ e.op # ""
    /\ Len(e.text) > Len(cause.text)
    /\ Includes(e.text, cause.text)

\* C16 as stated: whenever initializeDatabase failed in the open+migrate
\* step, after exhausted retries or at once, the error the caller receives is
\* a wrapper around the error the failing sub-step threw (tagged, carrying
\* the underlying cause).
C16_Original ==
    (init.call.status = "rejected" /\ Done(init.call, "setupDatabase")) =>
        \E i \in 1..Len(init.call.retry.log) :
            /\ init.call.retry.log[i].ev = "catch"
            /\ IsWrapperOf(init.call.error, init.call.retry.log[i].err)

\* ---------------------------------------------------------- calculateDelay
\* Largest retry number calculateDelay is called with.
MaxAttemptNo == 6

\* The arguments retry passes to calculateDelay (whole milliseconds and
\* whole multipliers).
DelayInputs ==
    [initialDelay : {10, 100}, maxDelay : {200, 5000},
     backoffMultiplier : {1, 2, 3}, jitter : BOOLEAN]

\* retry computes the delay before retry number attempt + 1.
ComputeDelay ==
    /\ calc.attempt < MaxAttemptNo
    /\ \E rnd \in RandomDraws([opts |-> calc.args]) :
          calc' = [calc EXCEPT
                     !.attempt = @ + 1,
                     !.rnd = rnd,
                     !.delay = calculateDelay(calc.attempt + 1, calc.args.initialDelay,
                                              calc.args.maxDelay,
                                              calc.args.backoffMultiplier,
                                              calc.args.jitter, rnd)]
    /\ UNCHANGED <<r, init, mcp, api, pth, fnd, cfg, auth, add>>

InitDelay ==
    /\ calc \in [args : DelayInputs, attempt : {0}, rnd : {0}, delay : {0}]
    /\ r = 0
    /\ init = 0
    /\ mcp = 0
    /\ api = 0
    /\ pth = 0
    /\ fnd = 0
    /\ cfg = 0
    /\ auth = 0
    /\ add = 0

NextDelay == ComputeDelay

SpecDelay == InitDelay /\ [][NextDelay]_vars

\* x multiplied k times by m.
RECURSIVE Scaled(_, _, _)
Scaled(x, m, k) == IF k = 0 THEN x ELSE Scaled(x * m, m, k - 1)

\* C13: with jitter disabled, the delay computed before retry number n
\* (n >= 1) is the smaller of initialDelay * backoffMultiplier^(n-1) and
\* maxDelay, so it never exceeds maxDelay; initialDelay 100, multiplier 2,
\* maxDelay 200 gives 100, 200, 200, 200, ...
C13_DelayWithoutJitter ==
    (calc.attempt >= 1 /\ ~calc.args.jitter) =>
        LET grown == Scaled(calc.args.initialDelay, calc.args.backoffMultiplier,
                            calc.attempt - 1)
        IN /\ calc.delay = IF grown <= calc.args.maxDelay THEN grown
                           ELSE calc.args.maxDelay
           /\ calc.delay <= calc.args.maxDelay
           /\ (calc.args.initialDelay = 100 /\ calc.args.backoffMultiplier = 2
                 /\ calc.args.maxDelay = 200) =>
                  calc.delay = IF calc.attempt = 1 THEN 100 ELSE 200

C13_Witness ==
    /\ ~calc.args.jitter
    /\ calc.args.initialDelay = 100
    /\ calc.args.backoffMultiplier = 2
    /\ calc.args.maxDelay = 200
    /\ calc.attempt = 5
    /\ calc.delay = 200

\* ------------------------------------------------- addEntry / listEntries
\* Number of API calls made on the store handle.
MaxCalls == 2

\* api.ts MAX_LIMIT, and the default of options.limit
MAX_LIMIT == 1000
DefaultLimit == 20

\* The errors the driver may throw from db.insert / the select query: the
\* messages "SQLITE_BUSY" and "database is locked" (transient contention),
\* "SQLITE_CONSTRAINT" (permanent), and a thrown value that is no Error.
ErrLocked == Err("Error", <<"d","a","t","a","b","a","s","e"," ","i","s"," ","l","o","c","k","e","d">>, "")
ErrConstraint == Err("Error", <<"S","Q","L","I","T","E","_","C","O","N","S","T","R","A","I","N","T">>, "")
DriverErrors == {ErrBusy, ErrLocked, ErrConstraint, ErrTimeoutString}

\* 'Failed to add entry' / 'Failed to list entries'
FailedMessage(op) ==
    IF op = "addEntry" THEN <<"F","a","i","l","e","d"," ","t","o"," ","a","d","d"," ","e","n","t","r","y">>
    ELSE <<"F","a","i","l","e","d"," ","t","o"," ","l","i","s","t"," ","e","n","t","r","i","e","s">>

\* The catch block inside the function addEntry / listEntries hand to
\* retryDb: an Error whose message includes 'SQLITE' (case-sensitively)
\* becomes LogbooksDbError(message, op), anything else LogbooksError(message,
\* err). The cause of a LogbooksError is kept beside the error in the call.
ApiWrap(op, err) ==
    IF err.kind = "Error" /\ Includes(err.text, <<"S","Q","L","I","T","E">>)
    THEN Err("Error", FailedMessage(op), op)
    ELSE Err("Error", FailedMessage(op), "")

EntryInputs ==
    [authorId : {"a1", "a2"}, ts : {Undefined, Some(1)},
     type : {Undefined, Some("decision")}]

ListOptionInputs ==
    [authorId : {Undefined, Some("a1")}, limit : {Undefined, Some(1)}]

\* The row addEntry inserts: ts defaults to Date.now(), type to 'update';
\* the uuid is the number of the row.
NewRow(rows, input, now) ==
    [id |-> Len(rows) + 1, authorId |-> input.authorId,
     ts |-> IF input.ts = Undefined THEN now ELSE input.ts[1],
     type |-> IF input.type = Undefined THEN "update" ELSE input.type[1]]

\* ORDER BY ts DESC (rows of equal ts in insertion order)
RECURSIVE OrderByTsDesc(_)
OrderByTsDesc(rows) ==
    IF rows = <<>> THEN <<>>
    ELSE LET i == CHOOSE i \in 1..Len(rows) :
                     \A j \in 1..Len(rows) :
                         rows[j].ts < rows[i].ts \/ (rows[j].ts = rows[i].ts /\ i <= j)
             rest == [k \in 1..(Len(rows) - 1) |-> IF k < i THEN rows[k] ELSE rows[k + 1]]
         IN << rows[i] >> \o OrderByTsDesc(rest)

\* The query of listEntries: WHERE authorId, ORDER BY ts DESC, LIMIT
\* Math.min(limit, MAX_LIMIT).
ListQuery(rows, options) ==
    LET limit == IF options.limit = Undefined THEN DefaultLimit ELSE options.limit[1]
        safeLimit == Min(limit, MAX_LIMIT)
        matching == SelectSeq(rows, LAMBDA x :
                        options.authorId = Undefined \/ x.authorId = options.authorId[1])
        ordered == OrderByTsDesc(matching)
    IN SubSeq(ordered, 1, Min(safeLimit, Len(ordered)))

NoCall == [op |-> "none", input |-> <<>>, retry |-> IdleRetry, driverErrors |-> <<>>]

\* addEntry(db, input) or listEntries(db, options) is called: retryDb(fn).
ApiCall ==
    /\ api.call.op = "none"
    /\ api.calls < MaxCalls
    /\ \/ \E input \in EntryInputs :
             api' = [api EXCEPT !.call = [op |-> "addEntry", input |-> input,
                                          retry |-> retryDb(NoKeys),
                                          driverErrors |-> <<>>]]
       \/ \E options \in ListOptionInputs :
             api' = [api EXCEPT !.call = [op |-> "listEntries", input |-> options,
                                          retry |-> retryDb(NoKeys),
                                          driverErrors |-> <<>>]]
    /\ UNCHANGED <<r, init, mcp, calc, pth, fnd, cfg, auth, add>>

\* retry reaches the head of its loop: at its entry, or when a sleep ends.
ApiRetryStep ==
    /\ api.call.op # "none"
    /\ api.call.retry.pc \in {"entry", "sleeping"}
    /\ api' = [api EXCEPT !.call.retry =
                  IF @.pc = "entry" THEN RetryLoop(@) ELSE RetryWake(@)]
    /\ UNCHANGED <<r, init, mcp, calc, pth, fnd, cfg, auth, add>>

\* One run of the function handed to retryDb: the statement succeeds, or the
\* driver throws and the catch block rethrows the wrapped error.
ApiAttempt ==
    /\ api.call.op # "none"
    /\ api.call.retry.pc = "fn"
    /\ \/ IF api.call.op = "addEntry"
          THEN LET row == NewRow(api.rows, api.call.input, api.now)
               IN api' = [api EXCEPT !.rows = Append(@, row),
                                     !.call.retry = RetryReturn(@, row.id)]
          ELSE api' = [api EXCEPT !.call.retry =
                          RetryReturn(@, ListQuery(api.rows, api.call.input))]
       \/ \E err \in DriverErrors, rnd \in RandomDraws(api.call.retry) :
             api' = [api EXCEPT
                       !.call.driverErrors = Append(@, err),
                       !.call.retry = RetryCatch(@, ApiWrap(api.call.op, err), rnd)]
    /\ UNCHANGED <<r, init, mcp, calc, pth, fnd, cfg, auth, add>>

\* The promise of retryDb settled: the call returns or throws to its caller.
ApiSettle ==
    /\ api.call.op # "none"
    /\ api.call.retry.settled # "pending"
    /\ api' = [api EXCEPT !.last = api.call, !.call = NoCall,
                          !.calls = @ + 1, !.now = @ + 1]
    /\ UNCHANGED <<r, init, mcp, calc, pth, fnd, cfg, auth, add>>

InitApi ==
    /\ api = [rows |-> <<>>, now |-> 2, calls |-> 0, call |-> NoCall, last |-> NoCall]
    /\ r = 0
    /\ init = 0
    /\ mcp = 0
    /\ calc = 0
    /\ pth = 0
    /\ fnd = 0
    /\ cfg = 0
    /\ auth = 0
    /\ add = 0

NextApi == ApiCall \/ ApiRetryStep \/ ApiAttempt \/ ApiSettle

SpecApi == InitApi /\ [][NextApi]_vars

\* C11 as stated: when the statement inside addEntry or listEntries failed
\* with a transient SQLite error (SQLITE_BUSY, database is locked), the call
\* is retried, and it rejects only once the ceiling of retryDb is reached
\* (6 attempts), with a DbError tagged with the operation name.
C11_Original ==
    (/\ api.last.op # "none"
     /\ api.last.retry.settled = "rejected"
     /\ \A i \in 1..Len(api.last.driverErrors) :
           isRetryableDbError(api.last.driverErrors[i])) =>
        /\ FnCalls(api.last.retry) = Budget(api.last.retry) + 1
        /\ api.last.retry.thrown.op = api.last.op

\* ---------------------------------------------------------- path resolvers
\* A path string as given in an option or an environment variable: absolute
\* or relative, with its segments. The empty string is EmptyString.
Raw(abs, segs) == [abs |-> abs, segs |-> segs]
EmptyString == Raw(FALSE, <<>>)

\* path.resolve(p)
resolve(raw) == IF raw.abs THEN raw.segs ELSE Cwd \o raw.segs

\* The truthiness of an optional string: set and not empty.
Truthy(opt) == opt # Undefined /\ opt[1] # EmptyString

\* The file names of the model that end in '.sqlite'.
SqliteNames == {"fieldbook.sqlite", "fieldbooks.sqlite", "custom.sqlite"}

\* String.prototype.endsWith('.sqlite') on a path string
EndsWithSqlite(raw) == raw.segs # <<>> /\ raw.segs[Len(raw.segs)] \in SqliteNames

\* paths.ts getGlobalFieldbookDir
getGlobalFieldbookDir(env) ==
    LET configHome == IF Truthy(env.XDG_CONFIG_HOME) THEN resolve(env.XDG_CONFIG_HOME[1])
                      ELSE join(env.homedir, ".config")
    IN join(configHome, "fieldbooks")

getFieldbookDirGlobalFirst(options, env, foundDir) ==
    IF options.global THEN getGlobalFieldbookDir(env)
    ELSE IF Truthy(options.path) THEN resolve(options.path[1])
    ELSE IF Truthy(env.FIELDBOOKS_PATH) THEN resolve(env.FIELDBOOKS_PATH[1])
    ELSE IF Truthy(env.FIELDBOOKS_DB)
    THEN IF EndsWithSqlite(env.FIELDBOOKS_DB[1])
         THEN dirname(resolve(env.FIELDBOOKS_DB[1]))
         ELSE resolve(env.FIELDBOOKS_DB[1])
    ELSE IF foundDir # Undefined THEN foundDir[1]
    ELSE join(Cwd, ".fieldbook")

getFieldbookDirDbVariableFirst(options, env, foundDir) ==
    IF Truthy(options.path) THEN resolve(options.path[1])
    ELSE IF options.global THEN getGlobalFieldbookDir(env)
    ELSE IF Truthy(env.FIELDBOOKS_DB)
    THEN IF EndsWithSqlite(env.FIELDBOOKS_DB[1])
         THEN dirname(resolve(env.FIELDBOOKS_DB[1]))
         ELSE resolve(env.FIELDBOOKS_DB[1])
    ELSE IF Truthy(env.FIELDBOOKS_PATH) THEN resolve(env.FIELDBOOKS_PATH[1])
    ELSE IF foundDir # Undefined THEN foundDir[1]
    ELSE join(Cwd, ".fieldbook")

\* paths.ts getFieldbookDir; foundDir is the result of findFieldbookDir().
getFieldbookDir(options, env, foundDir) ==
    IF Truthy(options.path) THEN resolve(options.path[1])
    ELSE IF options.global THEN getGlobalFieldbookDir(env)
    ELSE IF Truthy(env.FIELDBOOKS_PATH) THEN resolve(env.FIELDBOOKS_PATH[1])
    ELSE IF Truthy(env.FIELDBOOKS_DB)
    THEN IF EndsWithSqlite(env.FIELDBOOKS_DB[1])
         THEN dirname(resolve(env.FIELDBOOKS_DB[1]))
         ELSE resolve(env.FIELDBOOKS_DB[1])
    ELSE IF foundDir # Undefined THEN foundDir[1]
    ELSE join(Cwd, ".fieldbook")

\* paths.ts getFieldbookDbPath: the path it returns and the directory it
\* creates with ensureDirectory.
getFieldbookDbPath(options, env, foundDir) ==
    IF env.FIELDBOOKS_DB # Undefined /\ EndsWithSqlite(env.FIELDBOOKS_DB[1])
    THEN LET dbPath == resolve(env.FIELDBOOKS_DB[1])
         IN [path |-> dbPath, ensured |-> dirname(dbPath)]
    ELSE LET dir == getFieldbookDir(options, env, foundDir)
         IN [path |-> join(dir, "fieldbook.sqlite"), ensured |-> dir]

PathOptionInputs ==
    [global : BOOLEAN,
     path : {Undefined, Some(Raw(FALSE, <<"o">>)), Some(Raw(TRUE, <<"e", "o">>))}]

\* The environment of the process: HOME and os.homedir(), the
\* XDG_CONFIG_HOME variable with the xdgConfig export derived from it, and
\* the two override variables.
PathEnvs ==
    { [HOME |-> h, homedir |-> HomeDir, XDG_CONFIG_HOME |-> x,
       xdgConfig |-> IF Truthy(x) THEN Some(x[1].segs) ELSE Some(join(HomeDir, ".config")),
       FIELDBOOKS_PATH |-> fp, FIELDBOOKS_DB |-> fd] :
        h \in {Some(HomeDir)},
        x \in {Undefined, Some(Raw(TRUE, <<"x">>))},
        fp \in {Undefined, Some(EmptyString), Some(Raw(TRUE, <<"e", "d">>))},
        fd \in {Undefined, Some(Raw(FALSE, <<"data">>)),
                Some(Raw(TRUE, <<"e", "f", "custom.sqlite">>)),
                Some(Raw(TRUE, <<"e", "f", "fieldbook.sqlite">>))} }

FoundDirs == {Undefined, Some(join(Cwd, ".fieldbook")), Some(join(ParentDir, ".fieldbook"))}

LoadedConfigs == {loadConfig(f).value : f \in {g \in ConfigSearchResults : loadConfig(g).ok}}

\* A caller calls resolvePaths(loadedConfig, options).
ResolvePathsCall ==
    /\ pth.paths = Undefined
    /\ pth' = [pth EXCEPT !.paths = Some(resolvePaths(pth.loaded, pth.options, pth.env))]
    /\ UNCHANGED <<r, init, mcp, calc, api, fnd, cfg, auth, add>>

\* A caller calls getFieldbookDir(options).
GetFieldbookDirCall ==
    /\ pth.dir = Undefined
    /\ pth' = [pth EXCEPT !.dir = Some(getFieldbookDir(pth.options, pth.env, pth.foundDir))]
    /\ UNCHANGED <<r, init, mcp, calc, api, fnd, cfg, auth, add>>

\* A caller calls getFieldbookDbPath(options).
GetFieldbookDbPathCall ==
    /\ pth.dbPath = Undefined
    /\ LET res == getFieldbookDbPath(pth.options, pth.env, pth.foundDir)
       IN pth' = [pth EXCEPT !.dbPath = Some(res.path),
                             !.dirs = @ \cup WithAncestors(res.ensured)]
    /\ UNCHANGED <<r, init, mcp, calc, api, fnd, cfg, auth, add>>

InitPaths ==
    /\ \E o \in PathOptionInputs, e \in PathEnvs, l \in LoadedConfigs, f \in FoundDirs :
          pth = [options |-> o, env |-> e, loaded |-> l, foundDir |-> f,
                 dirs |-> WithAncestors(Cwd) \cup WithAncestors(HomeDir),
                 paths |-> Undefined, dir |-> Undefined, dbPath |-> Undefined]
    /\ r = 0
    /\ init = 0
    /\ mcp = 0
    /\ calc = 0
    /\ api = 0
    /\ fnd = 0
    /\ cfg = 0
    /\ auth = 0
    /\ add = 0

NextPaths == ResolvePathsCall \/ GetFieldbookDirCall \/ GetFieldbookDbPathCall

SpecPaths == InitPaths /\ [][NextPaths]_vars

\* --------------------------------------------------- path resolvers: claims
\* The FIELDBOOKS_DB variable names a database file.
DbVariableNamesFile(env) ==
    env.FIELDBOOKS_DB # Undefined /\ EndsWithSqlite(env.FIELDBOOKS_DB[1])

\* C17 as stated: whatever the options, the environment, the loaded config
\* and the discovered directory, the resolved database path is the resolved
\* root joined with the fixed database file name, in resolvePaths and in
\* getFieldbookDir / getFieldbookDbPath.
C17_Original ==
    /\ pth.paths # Undefined =>
          pth.paths[1].database = join(pth.paths[1].root, DB_FILE_NAME)
    /\ (pth.dir # Undefined /\ pth.dbPath # Undefined) =>
          pth.dbPath[1] = join(pth.dir[1], DB_FILE_NAME)

\* C17 amended: resolvePaths always returns database = root joined with the
\* fixed file name; getFieldbookDbPath returns the directory of
\* getFieldbookDir joined with the fixed file name unless FIELDBOOKS_DB ends
\* in '.sqlite', in which case it returns that path itself, whatever its file
\* name and whatever root the options select.
C17_DatabaseUnderRootUnlessDbVariable ==
    /\ pth.paths # Undefined =>
          pth.paths[1].database = join(pth.paths[1].root, DB_FILE_NAME)
    /\ (pth.dir # Undefined /\ pth.dbPath # Undefined) =>
          IF DbVariableNamesFile(pth.env)
          THEN pth.dbPath[1] = resolve(pth.env.FIELDBOOKS_DB[1])
          ELSE pth.dbPath[1] = join(pth.dir[1], DB_FILE_NAME)
    /\ pth.dbPath # Undefined => dirname(pth.dbPath[1]) \in pth.dirs

C17_Witness ==
    /\ pth.paths # Undefined /\ pth.dir # Undefined /\ pth.dbPath # Undefined
    /\ pth.loaded # Undefined /\ ~pth.options.global
    /\ pth.paths[1].root = ParentDir
    /\ Truthy(pth.options.path)
    /\ DbVariableNamesFile(pth.env)
    /\ dirname(pth.dbPath[1]) # pth.dir[1]

\* C18 as stated: when options.path and options.global = true are both
\* given, the root that path resolution returns is the explicit path resolved
\* to absolute, in getFieldbookDir and in resolvePaths.
C18_Original ==
    (Truthy(pth.options.path) /\ pth.options.global) =>
        /\ pth.dir # Undefined => pth.dir[1] = resolve(pth.options.path[1])
        /\ pth.paths # Undefined => pth.paths[1].root = resolve(pth.options.path[1])

\* C18 amended: with both options.path and options.global = true,
\* getFieldbookDir returns the explicit path resolved to absolute;
\* resolvePaths does not read options.path and returns the global directory.
C18_ExplicitPathWinsInGetFieldbookDir ==
    (Truthy(pth.options.path) /\ pth.options.global) =>
        /\ pth.dir # Undefined =>
              /\ pth.dir[1] = resolve(pth.options.path[1])
              /\ pth.dir[1] # getGlobalFieldbookDir(pth.env)
        /\ pth.paths # Undefined =>
              /\ pth.paths[1].root = join(pth.env.xdgConfig[1], GLOBAL_DIR_NAME)
              /\ pth.paths[1].root # resolve(pth.options.path[1])

C18_Witness ==
    /\ pth.options.global
    /\ pth.options.path = Some(Raw(FALSE, <<"o">>))
    /\ pth.dir = Some(join(Cwd, "o"))
    /\ pth.paths # Undefined

\* The case of C19: no explicit path, global not set, FIELDBOOKS_DB ending
\* in '.sqlite' and FIELDBOOKS_PATH both set.
BothVariablesSet(st) ==
    /\ ~Truthy(st.options.path)
    /\ ~st.options.global
    /\ DbVariableNamesFile(st.env)
    /\ Truthy(st.env.FIELDBOOKS_PATH)

\* C19 as stated: in that case the resolved root is the directory that
\* contains the database path of FIELDBOOKS_DB.
C19_Original ==
    (BothVariablesSet(pth) /\ pth.dir # Undefined) =>
        pth.dir[1] = dirname(resolve(pth.env.FIELDBOOKS_DB[1]))

\* C19 amended: in that case getFieldbookDir returns FIELDBOOKS_PATH
\* resolved to absolute (the directory variable is tested first), while
\* getFieldbookDbPath returns the path of FIELDBOOKS_DB.
C19_DirectoryVariableWins ==
    BothVariablesSet(pth) =>
        /\ pth.dir # Undefined => pth.dir[1] = resolve(pth.env.FIELDBOOKS_PATH[1])
        /\ pth.dbPath # Undefined => pth.dbPath[1] = resolve(pth.env.FIELDBOOKS_DB[1])

C19_Witness ==
    /\ BothVariablesSet(pth)
    /\ pth.dir = Some(<<"e", "d">>)
    /\ pth.dbPath = Some(<<"e", "f", "custom.sqlite">>)

\* C20 as stated: in every branch resolvePaths returns a concrete
\* projectConfig inside the chosen root and a concrete globalConfig inside
\* the global config directory.
C20_Original ==
    pth.paths # Undefined =>
        /\ pth.paths[1].projectConfig # Undefined
        /\ dirname(pth.paths[1].projectConfig[1]) = pth.paths[1].root
        /\ pth.paths[1].globalConfig # Undefined

\* C20 amended: globalConfig is always <global config dir>/config.json;
\* projectConfig is null in the global branch, the path of the loaded config
\* file in the config-found branch and <root>/config.json in the fallback
\* branch.
C20_ProjectConfigNullInGlobalMode ==
    pth.paths # Undefined =>
        LET res == pth.paths[1]
            globalDir == join(pth.env.xdgConfig[1], GLOBAL_DIR_NAME)
        IN /\ res.globalConfig = Some(join(globalDir, "config.json"))
           /\ IF pth.options.global
              THEN res.projectConfig = Undefined /\ res.root = globalDir
              ELSE IF pth.loaded # Undefined
              THEN /\ res.projectConfig = Some(pth.loaded[1].filepath)
                   /\ dirname(res.projectConfig[1]) = res.root
              ELSE /\ res.root = join(Cwd, PROJECT_DIR_NAME)
                   /\ res.projectConfig = Some(join(res.root, "config.json"))

C20_Witness ==
    /\ pth.paths # Undefined
    /\ pth.options.global
    /\ pth.loaded # Undefined
    /\ pth.paths[1].projectConfig = Undefined
    /\ pth.paths[1].globalConfig # Undefined

\* ------------------------------------------- retry policy: classification
\* The text of a thrown value that is neither null nor undefined.
TextOf(error) ==
    IF error.kind \in {"Error", "string"} THEN error.text ELSE JSONStringify(error)

\* pat occurs in hay when letter case is ignored.
ContainsIgnoringCase(hay, pat) ==
    \E i \in 1..(Len(hay) - Len(pat) + 1) :
        \A j \in 1..Len(pat) : ToLowerChar(hay[i + j - 1]) = ToLowerChar(pat[j])

IsTransient(error) ==
    /\ error.kind \notin {"null", "undefined"}
    /\ \E p \in 1..Len(RETRYABLE_DB_ERRORS) :
           ContainsIgnoringCase(TextOf(error), RETRYABLE_DB_ERRORS[p])

\* The catch at position i of the log was followed by a retry.
Retried(log, i) == i < Len(log) /\ log[i + 1].ev = "onRetry"

\* The position in the log of the latest catch.
LastCatchAt(log) == CHOOSE i \in 1..Len(log) :
    log[i].ev = "catch" /\ \A j \in (i + 1)..Len(log) : log[j].ev # "catch"

\* C23: under the retryDb classifier, the error of the latest catch, when
\* caught before the last permitted attempt, is retried if and only if its
\* text (the message of an Error, the string itself, the JSON form of any
\* other value) contains one of the transient substrings, letter case
\* ignored; a null or undefined error is never retried.
C23_TransientTextIsRetried ==
    (r.opts.isRetryable = "db" /\ Events(r.log, "catch") # <<>>) =>
        LET i == LastCatchAt(r.log)
            error == r.log[i].err
        IN /\ r.log[i].n < Budget(r) => (Retried(r.log, i) <=> IsTransient(error))
           /\ error.kind \in {"null", "undefined"} => ~Retried(r.log, i)

C23_Witness ==
    /\ r.opts.isRetryable = "db"
    /\ r.opts.initialDelay = 50
    /\ r.settled = "rejected"
    /\ Len(Events(r.log, "catch")) = 4
    /\ Events(r.log, "catch")[1].err = ErrObjectBusy
    /\ Events(r.log, "catch")[2].err = ErrLockedMixed
    /\ Events(r.log, "catch")[3].err = ErrTimeoutString
    /\ Events(r.log, "catch")[4].err = NoErr
    /\ Len(Events(r.log, "onRetry")) = 3

\* C25 as stated: whenever a retry call has settled, fn was invoked at least
\* once, whether maxAttempts was given, left out or given as undefined, in
\* the options of retry or in the override options of a wrapper.
C25_Original ==
    r.settled # "pending" => FnCalls(r) >= 1

\* ------------------------------------------------- legacy migrator: claims
\* migrateLegacyDb has just returned or thrown in the current call: nothing
\* has touched the disk since.
MigrationJustRan(st) ==
    /\ st.trace # <<>>
    /\ st.trace[Len(st.trace)] = "migrateLegacyDb"
    /\ st.retry.pc = "idle"

\* The files that were on disk at the start of the call and are gone.
Removed(before, after) == {f \in AllFiles : before[f].exists /\ ~after[f].exists}

\* The files whose content differs from the start of the call.
Changed(before, after) == {f \in AllFiles : before[f] # after[f]}

\* C24: the legacy migrator looks for the plural name first and the singular
\* one second; in one call it removes at most one file from its place, the
\* plural one whenever that exists, and then the singular file keeps its place
\* and its content.
C24_PluralFirstAtMostOneMove ==
    MigrationJustRan(init.call) =>
        LET before == init.call.files0
            after == init.disk.files
        IN /\ Cardinality(Removed(before, after)) <= 1
           /\ before[LegacyDbPath].exists =>
                 /\ Removed(before, after) \subseteq {LegacyDbPath}
                 /\ before[LegacyDbPathAlt].exists =>
                        after[LegacyDbPathAlt] = before[LegacyDbPathAlt]
           /\ (~before[LegacyDbPath].exists /\ before[LegacyDbPathAlt].exists) =>
                 Removed(before, after) \subseteq {LegacyDbPathAlt}
           /\ init.call.migration = "moved" =>
                 /\ Cardinality(Removed(before, after)) = 1
                 /\ Cardinality(Changed(before, after)) = 2
                 /\ after[NewDbPath(init)]
                        = before[CHOOSE f \in Removed(before, after) : TRUE]

C24_Witness ==
    /\ MigrationJustRan(init.call)
    /\ init.call.migration = "moved"
    /\ init.call.files0[LegacyDbPath].exists
    /\ init.call.files0[LegacyDbPathAlt].exists
    /\ init.disk.files[LegacyDbPathAlt] = init.call.files0[LegacyDbPathAlt]
    /\ ~init.disk.files[LegacyDbPath].exists

\* C26 as stated: whenever the legacy migrator is about to run and selects a
\* legacy file, that file is not the destination root/fieldbook.sqlite,
\* whatever the resolved root is.
C26_Original ==
    (CurrentStep(init.call) = "migrateLegacyDb" /\ LegacyPath(init.disk) # Undefined) =>
        LegacyPath(init.disk)[1] # join(init.call.paths.root, "fieldbook.sqlite")

\* The connections the open+migrate step of the current call has opened; the
\* code closes none of them.
OpenedBySetup(st) ==
    {i \in 1..Len(st.retry.log) : st.retry.log[i].ev = "open" /\ st.retry.log[i].n > 0}

\* C27 as stated: once the open+migrate step has settled, the connections it
\* opened and left open are the returned handle alone when it resolved, and
\* none when it rejected.
C27_Original ==
    /\ init.call.retry.settled = "resolved" =>
           Cardinality(OpenedBySetup(init.call)) <= 1
    /\ init.call.retry.settled = "rejected" =>
           Cardinality(OpenedBySetup(init.call)) = 0

\* C28 as stated: in global mode, every file directly in the working
\* directory is, throughout the call, as it was when the call started.
C28_Original ==
    init.options.global =>
        \A f \in AllFiles :
            dirname(f) = Cwd => init.disk.files[f] = init.call.files0[f]

\* -------------------------------------------------------- directory search
\* Depth of the deepest directory of the tree below the filesystem root.
MaxDepth == 3

ChainNames == <<"w", "p", "s", "t", "u">>

\* The directories of the tree: the filesystem root <<>> and one chain below it.
TreeDirs == {SubSeq(ChainNames, 1, n) : n \in 0..MaxDepth}

FsRoot == <<>>

\* What a directory holds under a name: nothing, a directory or a regular
\* file (.git is a file in a linked worktree or a submodule).
EntryKinds == {"none", "directory", "file"}

SearchedNames == {".git", PROJECT_DIR_NAME}

Trees == [TreeDirs -> [SearchedNames -> EntryKinds]]

\* findUp(name, { cwd, type: 'directory', stopAt }) of find-up: from cwd
\* upwards, the first directory holding a directory called name; the walk ends
\* after the directory stopAt (the filesystem root when stopAt is undefined).
RECURSIVE findUp(_, _, _, _)
findUp(tree, name, directory, stopAt) ==
    IF tree[directory][name] = "directory" THEN Some(join(directory, name))
    ELSE IF directory = (IF stopAt = Undefined THEN FsRoot ELSE stopAt[1])
            \/ directory = FsRoot
    THEN Undefined
    ELSE findUp(tree, name, dirname(directory), stopAt)

findFieldbookDirUnbounded(tree, startDir) ==
    findUp(tree, PROJECT_DIR_NAME, startDir, Undefined)

\* paths.ts findFieldbookDir(startDir); Undefined is null.
findFieldbookDir(tree, startDir) ==
    LET gitRoot == findUp(tree, ".git", startDir, Undefined)
        stopAt == IF gitRoot # Undefined THEN Some(dirname(gitRoot[1])) ELSE Undefined
    IN findUp(tree, PROJECT_DIR_NAME, startDir, stopAt)

\* findFieldbookDir(startDir) is called and returns.
FindFieldbookDirCall ==
    /\ ~fnd.done
    /\ fnd' = [fnd EXCEPT !.done = TRUE,
                          !.result = findFieldbookDir(fnd.tree, fnd.startDir)]
    /\ UNCHANGED <<r, init, mcp, calc, api, pth, cfg, auth, add>>

InitFind ==
    /\ fnd \in [tree : Trees, startDir : TreeDirs, done : {FALSE}, result : {Undefined}]
    /\ r = 0
    /\ init = 0
    /\ mcp = 0
    /\ calc = 0
    /\ api = 0
    /\ pth = 0
    /\ cfg = 0
    /\ auth = 0
    /\ add = 0

NextFind == FindFieldbookDirCall

SpecFind == InitFind /\ [][NextFind]_vars

\* d is startDir or one of its ancestors.
AtOrAbove(d, startDir) == Len(d) <= Len(startDir) /\ SubSeq(startDir, 1, Len(d)) = d

\* The repository roots at or above startDir: directories holding a .git
\* directory.
RepoRoots(tree, startDir) ==
    {d \in TreeDirs : AtOrAbove(d, startDir) /\ tree[d][".git"] = "directory"}

\* The directories the search may return from: at or above startDir, and not
\* above the nearest repository root.
InBounds(tree, startDir) ==
    {d \in TreeDirs :
        /\ AtOrAbove(d, startDir)
        /\ \A g \in RepoRoots(tree, startDir) : Len(d) >= Len(g)}

\* The directories within the bounds that hold a store directory.
Holders(tree, startDir) ==
    {d \in InBounds(tree, startDir) : tree[d][PROJECT_DIR_NAME] = "directory"}

Nearest(ds) == CHOOSE d \in ds : \A e \in ds : Len(e) <= Len(d)

\* C21 as stated: the search returns the nearest directory, within the bounds,
\* that contains the store directory, and null when there is none.
C21_Original ==
    fnd.done =>
        IF Holders(fnd.tree, fnd.startDir) = {} THEN fnd.result = Undefined
        ELSE fnd.result = Some(Nearest(Holders(fnd.tree, fnd.startDir)))

\* C21 amended: the search returns the path of the nearest store directory
\* itself (the directory named .fieldbook, not the directory holding it) found
\* at or above startDir and not above the nearest repository root, and null
\* when there is none; a store directory above the repository root is never
\* returned.
C21_ReturnsNearestStoreDirectory ==
    fnd.done =>
        /\ IF Holders(fnd.tree, fnd.startDir) = {} THEN fnd.result = Undefined
           ELSE fnd.result
                    = Some(join(Nearest(Holders(fnd.tree, fnd.startDir)), PROJECT_DIR_NAME))
        /\ \A g \in RepoRoots(fnd.tree, fnd.startDir) :
               fnd.result # Undefined => Len(fnd.result[1]) > Len(g)

C21_Witness ==
    /\ fnd.done
    /\ fnd.startDir = SubSeq(ChainNames, 1, 3)
    /\ fnd.tree[FsRoot][PROJECT_DIR_NAME] = "directory"
    /\ fnd.tree[SubSeq(ChainNames, 1, 1)][".git"] = "directory"
    /\ fnd.tree[SubSeq(ChainNames, 1, 1)][PROJECT_DIR_NAME] = "directory"
    /\ fnd.tree[SubSeq(ChainNames, 1, 2)][PROJECT_DIR_NAME] = "file"
    /\ fnd.tree[SubSeq(ChainNames, 1, 3)][PROJECT_DIR_NAME] = "none"
    /\ fnd.result = Some(<<"w", PROJECT_DIR_NAME>>)

\* ------------------------------------------------------ config validation
\* A config object is a function from the keys it holds to their values; a
\* key that is left out is not in its domain.
HasKey(o, k) == k \in DOMAIN o

\* z.enum([...]).default(d) / z.literal(v).default(v) on the key k of o
EnumOk(o, k, allowed) == HasKey(o, k) => o[k] \in allowed
WithDefault(o, k, d) == IF HasKey(o, k) THEN o ELSE Spread(o, Key(k, d))

\* database.backup: z.object({ enabled, interval, retention, location })
ParseBackup(b) ==
    [ok |-> EnumOk(b, "interval", {"hourly", "daily", "weekly"}),
     value |-> WithDefault(WithDefault(WithDefault(b, "enabled", FALSE),
                                       "interval", "daily"),
                           "location", "./backups/")]

\* database: z.object({ path, backup: ... .optional() })
ParseDatabase(d) ==
    IF ~HasKey(d, "backup") THEN [ok |-> TRUE, value |-> d]
    ELSE [ok |-> ParseBackup(d.backup).ok,
          value |-> Spread(d, Key("backup", ParseBackup(d.backup).value))]

\* cli: z.object({ defaultCommand, listLimit, richOutput, timestampFormat, editor })
ParseCli(c) ==
    [ok |-> HasKey(c, "listLimit") => c.listLimit > 0,
     value |-> WithDefault(WithDefault(WithDefault(WithDefault(c,
                   "defaultCommand", "list"), "listLimit", 20),
                   "richOutput", TRUE), "timestampFormat", "relative")]

\* FieldbookConfigSchema.parse(config): a group declared .optional() is
\* parsed only when the config holds it; one that is left out stays out of
\* the result.
Parse(config) ==
    LET db == IF HasKey(config, "database") THEN ParseDatabase(config.database)
              ELSE [ok |-> TRUE, value |-> NoKeys]
        cli == IF HasKey(config, "cli") THEN ParseCli(config.cli)
               ELSE [ok |-> TRUE, value |-> NoKeys]
        withVersion == WithDefault(config, "version", "1.0.0")
        withDb == IF HasKey(config, "database")
                  THEN Spread(withVersion, Key("database", db.value)) ELSE withVersion
        withCli == IF HasKey(config, "cli")
                   THEN Spread(withDb, Key("cli", cli.value)) ELSE withDb
    IN [ok |-> EnumOk(config, "version", {"1.0.0"}) /\ db.ok /\ cli.ok,
        value |-> withCli]

\* The config objects handed to the schema.
ConfigInputs ==
    { Spread(Spread(v, c), d) :
        v \in {NoKeys, Key("version", "1.0.0"), Key("version", "2.0.0")},
        c \in {NoKeys} \cup {Key("cli", x) :
                 x \in {NoKeys, Key("listLimit", 5), Key("listLimit", 0),
                        Key("defaultCommand", "add")}},
        d \in {NoKeys} \cup {Key("database", x) :
                 x \in {NoKeys, Key("path", "db"), Key("backup", NoKeys),
                        Key("backup", Key("interval", "weekly")),
                        Key("backup", Key("interval", "monthly"))}} }

\* FieldbookConfigSchema.parse(projectConfigResult.config) runs.
ParseCall ==
    /\ ~cfg.done
    /\ cfg' = [cfg EXCEPT !.done = TRUE, !.result = Parse(cfg.config)]
    /\ UNCHANGED <<r, init, mcp, calc, api, pth, fnd, auth, add>>

InitConfig ==
    /\ cfg \in [config : ConfigInputs, done : {FALSE},
                result : {[ok |-> FALSE, value |-> NoKeys]}]
    /\ r = 0
    /\ init = 0
    /\ mcp = 0
    /\ calc = 0
    /\ api = 0
    /\ pth = 0
    /\ fnd = 0
    /\ auth = 0
    /\ add = 0

NextConfig == ParseCall

SpecConfig == InitConfig /\ [][NextConfig]_vars

\* A config object every given value of which the schema accepts.
IsValidConfig(config) ==
    /\ HasKey(config, "version") => config.version = "1.0.0"
    /\ (HasKey(config, "cli") /\ HasKey(config.cli, "listLimit")) =>
           config.cli.listLimit > 0
    /\ (HasKey(config, "database") /\ HasKey(config.database, "backup")
          /\ HasKey(config.database.backup, "interval")) =>
           config.database.backup.interval \in {"hourly", "daily", "weekly"}

\* C22 as stated: for every valid config object, whichever optional groups it
\* leaves out, validation succeeds and the result holds the defaults:
\* cli.listLimit is the given value or 20, database.backup.interval is the
\* given value or "daily".
C22_Original ==
    (cfg.done /\ IsValidConfig(cfg.config)) =>
        /\ cfg.result.ok
        /\ HasKey(cfg.result.value, "cli")
        /\ HasKey(cfg.result.value.cli, "listLimit")
        /\ HasKey(cfg.config, "cli") \/ cfg.result.value.cli.listLimit = 20
        /\ HasKey(cfg.result.value, "database")
        /\ HasKey(cfg.result.value.database, "backup")
        /\ HasKey(cfg.result.value.database.backup, "interval")
        /\ HasKey(cfg.config, "database")
              \/ cfg.result.value.database.backup.interval = "daily"

\* ------------------------------------------------------ ensureAuthorExists
\* Number of concurrent ensureAuthorExists calls for the same author id.
NumCallers == 2

\* Largest number of statements that meet a locked database.
MaxDbFaults == 2

Callers == 1..NumCallers

\* The driver's error for a second row with the primary key authors.id.
ErrUnique == Err("Error", <<"U","N","I","Q","U","E"," ","c","o","n","s","t","r","a","i","n","t"," ","f","a","i","l","e","d",":"," ","a","u","t","h","o","r","s",".","i","d">>, "")

\* A caller that has not called ensureAuthorExists yet.
CallerEntry == [retry |-> IdleRetry, step |-> "none"]

\* One statement of the function handed to retryDb ended: fn fulfils, or
\* rejects with error and retry classifies it.
AuthorFulfil(c) == [c EXCEPT !.retry = RetryReturn(@, 0), !.step = "none"]
AuthorReject(c, error, rnd) == [c EXCEPT !.retry = RetryCatch(@, error, rnd), !.step = "none"]

\* The statement a caller runs next once retry has invoked fn.
StepOf(c) == IF c.retry.pc = "fn" /\ c.step = "none" THEN "select" ELSE c.step

\* ensureAuthorExists(db, authorId) is called: retryDb(fn, { onRetry }).
EnsureCall(p) ==
    /\ auth.c[p].retry.pc = "idle"
    /\ auth' = [auth EXCEPT !.c[p].retry = RetryLoop(retryDb(NoKeys))]
    /\ UNCHANGED <<r, init, mcp, calc, api, pth, fnd, cfg, add>>

\* db.select().from(authors).where(eq(authors.id, authorId)).limit(1)
SelectAuthor(p) ==
    /\ auth.c[p].retry.pc = "fn"
    /\ StepOf(auth.c[p]) = "select"
    /\ auth' = [auth EXCEPT !.c[p] =
          IF auth.rows > 0 THEN AuthorFulfil(@) ELSE [@ EXCEPT !.step = "insert"]]
    /\ UNCHANGED <<r, init, mcp, calc, api, pth, fnd, cfg, add>>

\* db.insert(authors).values({ id: authorId, ... }): the primary key refuses
\* a second row with the same id.
InsertAuthor(p) ==
    /\ auth.c[p].retry.pc = "fn"
    /\ auth.c[p].step = "insert"
    /\ \E rnd \in RandomDraws(auth.c[p].retry) :
          auth' = IF auth.rows = 0
                  THEN [auth EXCEPT !.rows = 1, !.c[p] = AuthorFulfil(@)]
                  ELSE [auth EXCEPT !.c[p] = AuthorReject(@, ErrUnique, rnd)]
    /\ UNCHANGED <<r, init, mcp, calc, api, pth, fnd, cfg, add>>

\* A statement finds the database locked by another connection.
StatementBusy(p) ==
    /\ auth.c[p].retry.pc = "fn"
    /\ auth.faults < MaxDbFaults
    /\ \E rnd \in RandomDraws(auth.c[p].retry) :
          auth' = [auth EXCEPT !.faults = @ + 1,
                               !.c[p] = AuthorReject(@, ErrLocked, rnd)]
    /\ UNCHANGED <<r, init, mcp, calc, api, pth, fnd, cfg, add>>

\* The sleep between two attempts of a caller ends.
AuthorSleepDone(p) ==
    /\ auth.c[p].retry.pc = "sleeping"
    /\ auth' = [auth EXCEPT !.c[p].retry = RetryWake(@)]
    /\ UNCHANGED <<r, init, mcp, calc, api, pth, fnd, cfg, add>>

InitAuthors ==
    /\ auth = [rows |-> 0, faults |-> 0, c |-> [p \in Callers |-> CallerEntry]]
    /\ r = 0
    /\ init = 0
    /\ mcp = 0
    /\ calc = 0
    /\ api = 0
    /\ pth = 0
    /\ fnd = 0
    /\ cfg = 0
    /\ add = 0

EnsureCalls == \E p \in Callers : EnsureCall(p)
SelectAuthors == \E p \in Callers : SelectAuthor(p)
InsertAuthors == \E p \in Callers : InsertAuthor(p)
StatementsBusy == \E p \in Callers : StatementBusy(p)
AuthorSleepsDone == \E p \in Callers : AuthorSleepDone(p)

NextAuthors ==
    EnsureCalls \/ SelectAuthors \/ InsertAuthors \/ StatementsBusy \/ AuthorSleepsDone

SpecAuthors == InitAuthors /\ [][NextAuthors]_vars

\* C29 as stated: once both concurrent calls for the same author id have
\* settled, both have resolved and exactly one row with that id exists.
C29_Original ==
    (\A p \in Callers : auth.c[p].retry.settled # "pending") =>
        /\ \A p \in Callers : auth.c[p].retry.settled = "resolved"
        /\ auth.rows = 1

\* -------------------------------------------------------------- add command
\* The steps of the operation raced against the timeout, in program order.
AddSteps == << "initializeDatabase", "ensureAuthorExists", "addEntry" >>

\* new Error('Operation timed out')
TimedOutMessage == "Operation timed out"

\* The component at its first render: initialContent tells whether the prop
\* holds a non-empty text (the effect then submits it, otherwise the editor
\* does); status is 'saving' when it does and 'editing' otherwise; pc is the position of handleSubmit,
\* op the position of the raced operation (0 = not started, Len(AddSteps) + 1
\* = returned, -1 = threw), attempt the retry number retryDb has reached
\* inside the current step, timer the 30 second timer, exitTimer the 1 second
\* timer before process.exit(0); statuses is the history of setStatus calls.
AddEntry(initialContent, valid) ==
    [initialContent |-> initialContent,
     status |-> IF initialContent THEN "saving" ELSE "editing",
     valid |-> valid, pc |-> "idle", op |-> 0, attempt |-> 0, timer |-> "unset",
     exitTimer |-> "unset", exited |-> FALSE, error |-> "", entryId |-> 0,
     entries |-> 0, statuses |-> <<>>]

SetStatus(st, status) == [st EXCEPT !.status = status, !.statuses = Append(@, status)]

\* The catch block of handleSubmit: setError(err); setStatus('error').
AddCatch(st, message) == SetStatus([st EXCEPT !.pc = "done", !.error = message], "error")

\* handleSubmit(content) up to `await Promise.race([...])`: setStatus('saving'),
\* validateEntryInput, the timer is armed and the raced operation starts.
HandleSubmit ==
    /\ add.pc = "idle"
    /\ ~add.exited
    /\ add' = IF add.valid
              THEN [SetStatus(add, "saving") EXCEPT !.pc = "racing", !.timer = "armed", !.op = 1]
              ELSE AddCatch(SetStatus(add, "saving"), "validation failed")
    /\ UNCHANGED <<r, init, mcp, calc, api, pth, fnd, cfg, auth>>

\* The race settled with the operation's result: the await returns and the
\* exit timer is armed, or the await throws into the catch block. Nothing
\* happens when the race has settled already.
RaceSettled(st, ok) ==
    IF st.pc # "racing" THEN st
    ELSE IF ok THEN [st EXCEPT !.pc = "done", !.exitTimer = "armed"]
    ELSE AddCatch(st, "database failed")

\* One awaited step of the raced operation returns; after addEntry the entry
\* is written, and setEntryId(id) and setStatus('success') run.
OperationStep ==
    /\ add.op \in 1..Len(AddSteps)
    /\ ~add.exited
    /\ add' = IF add.op < Len(AddSteps) THEN [add EXCEPT !.op = @ + 1, !.attempt = 0]
              ELSE RaceSettled(
                      SetStatus([add EXCEPT !.op = @ + 1, !.attempt = 0,
                                            !.entries = @ + 1, !.entryId = 1],
                                "success"),
                      TRUE)
    /\ UNCHANGED <<r, init, mcp, calc, api, pth, fnd, cfg, auth>>

\* The database statement of the current step meets a transient error and
\* retryDb, which wraps each of the three steps, runs it again.
OperationRetries ==
    /\ add.op \in 1..Len(AddSteps)
    /\ ~add.exited
    /\ add.attempt < RetryDbDefaults.maxAttempts[1]
    /\ add' = [add EXCEPT !.attempt = @ + 1]
    /\ UNCHANGED <<r, init, mcp, calc, api, pth, fnd, cfg, auth>>

\* One awaited step of the raced operation throws.
OperationFails ==
    /\ add.op \in 1..Len(AddSteps)
    /\ ~add.exited
    /\ add' = RaceSettled([add EXCEPT !.op = -1], FALSE)
    /\ UNCHANGED <<r, init, mcp, calc, api, pth, fnd, cfg, auth>>

\* The timer of OPERATION_TIMEOUT fires: timeoutPromise rejects; the raced
\* operation is not cancelled.
TimeoutFires ==
    /\ add.timer = "armed"
    /\ ~add.exited
    /\ add' = IF add.pc = "racing"
              THEN AddCatch([add EXCEPT !.timer = "fired"], TimedOutMessage)
              ELSE [add EXCEPT !.timer = "fired"]
    /\ UNCHANGED <<r, init, mcp, calc, api, pth, fnd, cfg, auth>>

\* The timer of SUCCESS_DISPLAY_DELAY fires: process.exit(0).
ExitFires ==
    /\ add.exitTimer = "armed"
    /\ ~add.exited
    /\ add' = [add EXCEPT !.exitTimer = "fired", !.exited = TRUE]
    /\ UNCHANGED <<r, init, mcp, calc, api, pth, fnd, cfg, auth>>

InitAdd ==
    /\ add \in {AddEntry(c, v) : c \in BOOLEAN, v \in BOOLEAN}
    /\ r = 0
    /\ init = 0
    /\ mcp = 0
    /\ calc = 0
    /\ api = 0
    /\ pth = 0
    /\ fnd = 0
    /\ cfg = 0
    /\ auth = 0

NextAdd ==
    HandleSubmit \/ OperationStep \/ OperationRetries \/ OperationFails
        \/ TimeoutFires \/ ExitFires

SpecAdd == InitAdd /\ [][NextAdd]_vars

\* C30 as stated: once the submission was given up with 'Operation timed
\* out', the status is 'error' and stays so, and no entry was written for it.
C30_Original ==
    add.error = TimedOutMessage =>
        /\ add.status = "error"
        /\ add.entries = 0

====
